---- MODULE Spec2Model ----
(***************************************************************************)
(* User Data API: AsyncProcessor (request coalescer), LRUCache and         *)
(* AdvancedRateLimiter, modelled from the TypeScript sources.              *)
(*                                                                         *)
(* Each component's state is one record-valued variable; its methods are   *)
(* operators from a state (and the arguments, and the value Date.now()     *)
(* returns) to the next state.  Time is the variable now, in milliseconds. *)
(* SpecCoalescer, SpecCache and SpecLimiter each drive one component with  *)
(* every call of its interface, at the instants listed for it.             *)
(* SpecService drives the users router and the cache router, each with the *)
(* cache it is given.                                                      *)
(***************************************************************************)
EXTENDS Integers, Sequences, FiniteSets, TLC

VARIABLES
  now,             \* the value Date.now() returns
  asyncProcessor,  \* the fields of one AsyncProcessor and its running processUser calls
  promises,        \* the promises processUserRequest has returned, by creation order
  groupLog,        \* history: one record per pending group ever installed
  lru,             \* the fields of one LRUCache
  cacheCall,       \* history: the last call made on lru and what it returned
  rateLimiter,     \* the store of one AdvancedRateLimiter
  limitCall,       \* history: the last request the middleware saw and its response
  limitWindows,    \* history: every window the limiter has set up, with its admits
  handlers,        \* the GET /users/:id handlers the users router has run, by arrival
  serverCache,     \* the fields of the LRUCache that server.ts creates (cache routes)
  svcCall,         \* history: the last request answered, or delivery made, at this instant
  pipeCall         \* history: the last request that came to the limiter and its response

coVars == <<asyncProcessor, promises, groupLog>>

cacheVars == <<lru, cacheCall>>

limVars == <<rateLimiter, limitCall, limitWindows>>

svcVars == <<handlers, serverCache, svcCall, pipeCall>>

vars == <<now, asyncProcessor, promises, groupLog, lru, cacheCall,
          rateLimiter, limitCall, limitWindows, handlers, serverCache, svcCall,
          pipeCall>>

\* ---------------------------------------------------------------- bounds
MaxWaiters == 3

MaxCapacity == 2

MaxProbes == 2

MaxRequests == 4

\* ---------------------------------------------------------------- helpers
MapSet(m, k, v) == [x \in (DOMAIN m) \cup {k} |-> IF x = k THEN v ELSE m[x]]

MapDelete(m, k) == [x \in (DOMAIN m) \ {k} |-> m[x]]

EmptyMap == [x \in {} |-> 0]

RECURSIVE SeqFilterWaiters(_, _, _)
\* requests.filter(req => now - req.timestamp < maxAge)
SeqFilterWaiters(s, t, maxAge) ==
  IF s = <<>> THEN <<>>
  ELSE IF t - Head(s).timestamp < maxAge
       THEN <<Head(s)>> \o SeqFilterWaiters(Tail(s), t, maxAge)
       ELSE SeqFilterWaiters(Tail(s), t, maxAge)

\* array.indexOf(x), counted from 1; 0 where JavaScript returns -1
IndexOf(s, x) ==
  IF \E i \in DOMAIN s : s[i] = x
  THEN CHOOSE i \in DOMAIN s : s[i] = x /\ \A j \in 1..(i - 1) : s[j] # x
  ELSE 0

\* array.splice(i, 1)
Splice1(s, i) == [j \in 1..(Len(s) - 1) |-> IF j < i THEN s[j] ELSE s[j + 1]]

\* ---------------------------------------------------------------- users
NoUser == [id |-> 0, name |-> "", email |-> ""]

InitialMockUsers ==
  (1 :> [id |-> 1, name |-> "John Doe", email |-> "john@example.com"]) @@
  (2 :> [id |-> 2, name |-> "Jane Smith", email |-> "jane@example.com"]) @@
  (3 :> [id |-> 3, name |-> "Alice Johnson", email |-> "alice@example.com"])

\* the ids requests ask for: two stored users and one that is not stored
RequestIds == {1, 2, 999}

\* the users addUser is called with
NewUsers == {[id |-> 999, name |-> "Test User", email |-> "test@example.com"]}

\* ---------------------------------------------------------------- AsyncProcessor
DatabaseDelay == 200

CoalescerMaxAge == 30000

PendingOutcome == [kind |-> "pending", user |-> NoUser, message |-> <<>>]

Resolved(user) == [kind |-> "value", user |-> user, message |-> <<>>]

\* new Error(`User with ID ${userId} not found`)
Rejected(userId) == [kind |-> "error", user |-> NoUser,
                     message |-> <<"User with ID ", userId, " not found">>]

NewAsyncProcessor ==
  [pendingRequests |-> EmptyMap,
   processingQueue |-> <<>>,
   isProcessing |-> FALSE,
   mockUsers |-> InitialMockUsers,
   running |-> <<>>]

\* processUser up to its first await: the 200 ms timer is set at time t
StartProcessUser(ap, userId, t) ==
  [ap EXCEPT !.running = Append(@, [userId |-> userId, startTime |-> t])]

\* one turn of processQueue's while loop: shift the head and call processUser,
\* or leave the loop and clear isProcessing
ProcessQueueLoop(ap, t) ==
  IF Len(ap.processingQueue) > 0
  THEN StartProcessUser([ap EXCEPT !.processingQueue = Tail(@)],
                        Head(ap.processingQueue), t)
  ELSE [ap EXCEPT !.isProcessing = FALSE]

AsyncProcessor_processQueue(ap, t) ==
  IF ap.isProcessing \/ Len(ap.processingQueue) = 0
  THEN ap
  ELSE ProcessQueueLoop([ap EXCEPT !.isProcessing = TRUE], t)

\* an executor that does not look for a pending request of the user
AsyncProcessor_processUserRequest_NoAttach(ap, userId, w, t) ==
  LET installed ==
        [ap EXCEPT !.pendingRequests =
                     MapSet(@, userId, <<[w |-> w, timestamp |-> t]>>),
                   !.processingQueue = Append(@, userId)]
  IN IF ~installed.isProcessing THEN AsyncProcessor_processQueue(installed, t) ELSE installed

\* the executor of the promise processUserRequest returns; w names the promise
AsyncProcessor_processUserRequest(ap, userId, w, t) ==
  IF userId \in DOMAIN ap.pendingRequests
  THEN [ap EXCEPT !.pendingRequests =
          MapSet(@, userId, Append(@[userId], [w |-> w, timestamp |-> t]))]
  ELSE LET installed ==
             [ap EXCEPT !.pendingRequests =
                          MapSet(@, userId, <<[w |-> w, timestamp |-> t]>>),
                        !.processingQueue = Append(@, userId)]
       IN IF ~installed.isProcessing THEN AsyncProcessor_processQueue(installed, t) ELSE installed

\* what processUser settles the waiters with, after the timer has fired
FetchOutcome(ap, userId) ==
  IF userId \in DOMAIN ap.mockUsers
  THEN Resolved(ap.mockUsers[userId])
  ELSE Rejected(userId)

\* this.pendingRequests.get(userId) || []
WaitersOf(ap, userId) ==
  IF userId \in DOMAIN ap.pendingRequests THEN ap.pendingRequests[userId] ELSE <<>>

\* pendingRequests.forEach(({ resolve }) => resolve(user)) or the reject branch
Deliver(ps, waiters, outcome) ==
  [w \in DOMAIN ps |->
     IF \E i \in DOMAIN waiters : waiters[i].w = w
     THEN [ps[w] EXCEPT !.outcome = outcome]
     ELSE ps[w]]

\* a processUser that settles the waiters and leaves their array in the map
AsyncProcessor_processUserDone_KeepGroup(ap, i, t) ==
  ProcessQueueLoop([ap EXCEPT !.running = Splice1(@, i)], t)

\* the rest of processUser(running[i]) after the timer, then the continuation
\* of processQueue (it runs in the same macrotask)
AsyncProcessor_processUserDone(ap, i, t) ==
  LET userId == ap.running[i].userId
      delivered == [ap EXCEPT !.pendingRequests = MapDelete(@, userId),
                              !.running = Splice1(@, i)]
  IN ProcessQueueLoop(delivered, t)

AsyncProcessor_cleanup(ap, t) ==
  LET valid(u) == SeqFilterWaiters(ap.pendingRequests[u], t, CoalescerMaxAge)
      kept == {u \in DOMAIN ap.pendingRequests : Len(valid(u)) > 0}
  IN [ap EXCEPT !.pendingRequests = [u \in kept |-> valid(u)]]

AsyncProcessor_addUser(ap, user) == [ap EXCEPT !.mockUsers = MapSet(@, user.id, user)]

\* ---------------------------------------------------------------- LRUCache
\* what get returns on a miss
Null == "null"

CacheKeys == {"", "a", "b"}

CacheValues == {"v1", "v2"}

DefaultTtl == 60000

\* the optional argument customTtl of set: absent, or 0
CustomTtls == {[given |-> FALSE, ms |-> 0], [given |-> TRUE, ms |-> 0]}

NewLRUCache(maxSize, ttl) ==
  [cache |-> EmptyMap,
   accessOrder |-> <<>>,
   stats |-> [hits |-> 0, misses |-> 0, size |-> 0],
   maxSize |-> maxSize,
   ttl |-> ttl]

\* this.cache.size
CacheSize(c) == Cardinality(DOMAIN c.cache)

LRUCache_removeFromAccessOrder(c, key) ==
  LET index == IndexOf(c.accessOrder, key)
  IN IF index > 0 THEN [c EXCEPT !.accessOrder = Splice1(@, index)] ELSE c

\* a comparison that also expires an entry whose age equals its ttl
Expired_AtBoundary(entry, t) == t - entry.timestamp >= entry.ttl

\* Date.now() - entry.timestamp > entry.ttl
Expired(entry, t) == t - entry.timestamp > entry.ttl

\* a get whose hit leaves the access order as it is
LRUCache_get_NoPromote(c, key, t) ==
  IF key \notin DOMAIN c.cache
  THEN [lru |-> [c EXCEPT !.stats.misses = @ + 1], ret |-> Null, hit |-> FALSE]
  ELSE LET entry == c.cache[key]
       IN IF Expired(entry, t)
          THEN LET removed == LRUCache_removeFromAccessOrder(
                                [c EXCEPT !.cache = MapDelete(@, key)], key)
               IN [lru |-> [removed EXCEPT !.stats.misses = @ + 1,
                                           !.stats.size = CacheSize(removed)],
                   ret |-> Null, hit |-> FALSE]
          ELSE [lru |-> [c EXCEPT !.stats.hits = @ + 1], ret |-> entry.data,
                hit |-> TRUE]

\* ret is what get returns, and hit whether that is an entry's data (the
\* callers' test `if (cachedUser)`) and not null
LRUCache_get(c, key, t) ==
  IF key \notin DOMAIN c.cache
  THEN [lru |-> [c EXCEPT !.stats.misses = @ + 1], ret |-> Null, hit |-> FALSE]
  ELSE LET entry == c.cache[key]
       IN IF Expired(entry, t)
          THEN LET removed == LRUCache_removeFromAccessOrder(
                                [c EXCEPT !.cache = MapDelete(@, key)], key)
               IN [lru |-> [removed EXCEPT !.stats.misses = @ + 1,
                                           !.stats.size = CacheSize(removed)],
                   ret |-> Null, hit |-> FALSE]
          ELSE LET removed == LRUCache_removeFromAccessOrder(c, key)
               IN [lru |-> [removed EXCEPT !.accessOrder = Append(@, key),
                                           !.stats.hits = @ + 1],
                   ret |-> entry.data, hit |-> TRUE]

\* customTtl || this.ttl
EntryTtl(c, customTtl) ==
  IF customTtl.given /\ customTtl.ms # 0 THEN customTtl.ms ELSE c.ttl

\* const lruKey = this.accessOrder.shift(); if (lruKey) this.cache.delete(lruKey):
\* shift() returns undefined on an empty array, and undefined and the empty
\* string are both falsy
EvictLRU(c) ==
  IF Len(c.accessOrder) = 0
  THEN c
  ELSE LET lruKey == Head(c.accessOrder)
           shifted == [c EXCEPT !.accessOrder = Tail(@)]
       IN IF lruKey # ""
          THEN [shifted EXCEPT !.cache = MapDelete(@, lruKey)]
          ELSE shifted

LRUCache_set(c, key, value, customTtl, t) ==
  LET entry == [data |-> value, timestamp |-> t, ttl |-> EntryTtl(c, customTtl)]
  IN IF key \in DOMAIN c.cache
     THEN LET removed == LRUCache_removeFromAccessOrder(
                           [c EXCEPT !.cache = MapSet(@, key, entry)], key)
          IN [removed EXCEPT !.accessOrder = Append(@, key)]
     ELSE LET room == IF CacheSize(c) >= c.maxSize THEN EvictLRU(c) ELSE c
              stored == [room EXCEPT !.cache = MapSet(@, key, entry),
                                     !.accessOrder = Append(@, key)]
          IN [stored EXCEPT !.stats.size = CacheSize(stored)]

LRUCache_delete(c, key) ==
  IF key \in DOMAIN c.cache
  THEN LET removed == LRUCache_removeFromAccessOrder(
                        [c EXCEPT !.cache = MapDelete(@, key)], key)
       IN [lru |-> [removed EXCEPT !.stats.size = CacheSize(removed)], ret |-> TRUE]
  ELSE [lru |-> c, ret |-> FALSE]

\* a clear that records the size before it empties the map
LRUCache_clear_SizeBefore(c) ==
  [c EXCEPT !.cache = EmptyMap, !.accessOrder = <<>>, !.stats.size = CacheSize(c)]

LRUCache_clear(c) ==
  [c EXCEPT !.cache = EmptyMap, !.accessOrder = <<>>, !.stats.size = 0]

LRUCache_getStats(c) == c.stats

\* cacheCall before any call.  op and key name the call, ret is what get
\* returned, count what delete (1 for true) or cleanup returned, and pos the
\* place of key in accessOrder before the call (0: not in it)
NoCall == [op |-> "none", key |-> "", ret |-> Null, count |-> 0, pos |-> 0]

RECURSIVE RemoveKeys(_, _)
\* delete and removeFromAccessOrder for each of the keys
RemoveKeys(c, keys) ==
  IF keys = {} THEN c
  ELSE LET key == CHOOSE k \in keys : TRUE
       IN RemoveKeys(LRUCache_removeFromAccessOrder(
                       [c EXCEPT !.cache = MapDelete(@, key)], key),
                     keys \ {key})

\* a sweep that stops after the first expired entry it meets
LRUCache_cleanup_StopAtFirst(c, t) ==
  LET expired == {key \in DOMAIN c.cache : Expired(c.cache[key], t)}
      first == IF expired = {} THEN {} ELSE {CHOOSE key \in expired : TRUE}
      removed == RemoveKeys(c, first)
  IN [lru |-> [removed EXCEPT !.stats.size = CacheSize(removed)],
      ret |-> Cardinality(first)]

LRUCache_cleanup(c, t) ==
  LET expired == {key \in DOMAIN c.cache : Expired(c.cache[key], t)}
      removed == RemoveKeys(c, expired)
  IN [lru |-> [removed EXCEPT !.stats.size = CacheSize(removed)],
      ret |-> Cardinality(expired)]

\* ---------------------------------------------------------------- AdvancedRateLimiter
maxRequestsPerMinute == 10

burstCapacity == 5

burstWindow == 10000

MinuteWindow == 60000

\* Math.floor(x / d) in the place of Math.ceil
Ceil_Floor(x, d) == x \div d

\* a rounding to the nearest whole number: Math.round
Ceil_Round(x, d) == (2 * x + d) \div (2 * d)

\* Math.ceil(x / d)
Ceil(x, d) == -((-x) \div d)

\* req.ip || req.connection.remoteAddress || 'unknown'
getClientId(ip, remoteAddress) ==
  IF ip # "" THEN ip ELSE IF remoteAddress # "" THEN remoteAddress ELSE "unknown"

NewRateLimiter == [store |-> EmptyMap]

NoInfo == [requests |-> -1, resetTime |-> -1, burstRequests |-> -1, burstResetTime |-> -1]

\* a rollover of the minute window that waits until the reset time has passed
RolledOver_Late(rl, clientId, t) ==
  LET found == IF clientId \in DOMAIN rl.store
               THEN rl.store[clientId]
               ELSE [requests |-> 0, resetTime |-> t + 60000,
                     burstRequests |-> 0, burstResetTime |-> t + burstWindow]
      minute == IF t > found.resetTime
                THEN [found EXCEPT !.requests = 0, !.resetTime = t + 60000]
                ELSE found
  IN IF t >= minute.burstResetTime
     THEN [minute EXCEPT !.burstRequests = 0, !.burstResetTime = t + burstWindow]
     ELSE minute

\* a rollover that moves each reset time on by one window length
RolledOver_Aligned(rl, clientId, t) ==
  LET found == IF clientId \in DOMAIN rl.store
               THEN rl.store[clientId]
               ELSE [requests |-> 0, resetTime |-> t + 60000,
                     burstRequests |-> 0, burstResetTime |-> t + burstWindow]
      minute == IF t >= found.resetTime
                THEN [found EXCEPT !.requests = 0, !.resetTime = @ + 60000]
                ELSE found
  IN IF t >= minute.burstResetTime
     THEN [minute EXCEPT !.burstRequests = 0, !.burstResetTime = @ + burstWindow]
     ELSE minute

\* lines 27-49: look the client up or create its entry, then roll the windows over
RolledOver(rl, clientId, t) ==
  LET found == IF clientId \in DOMAIN rl.store
               THEN rl.store[clientId]
               ELSE [requests |-> 0, resetTime |-> t + 60000,
                     burstRequests |-> 0, burstResetTime |-> t + burstWindow]
      minute == IF t >= found.resetTime
                THEN [found EXCEPT !.requests = 0, !.resetTime = t + 60000]
                ELSE found
  IN IF t >= minute.burstResetTime
     THEN [minute EXCEPT !.burstRequests = 0, !.burstResetTime = t + burstWindow]
     ELSE minute

\* the response of a request that was let through: next() and the headers
Admitted(info) ==
  [status |-> 200, limitType |-> "", retryAfter |-> 0,
   remaining |-> IF maxRequestsPerMinute - info.requests > 0
                 THEN maxRequestsPerMinute - info.requests ELSE 0,
   burstRemaining |-> IF burstCapacity - info.burstRequests > 0
                      THEN burstCapacity - info.burstRequests ELSE 0,
   reset |-> info.resetTime,
   burstReset |-> info.burstResetTime]

\* res.status(429).json({ ..., retryAfter, limitType })
TooMany(limitType, retryAfter) ==
  [status |-> 429, limitType |-> limitType, retryAfter |-> retryAfter,
   remaining |-> 0, burstRemaining |-> 0, reset |-> 0, burstReset |-> 0]

\* a middleware whose minute check lets one request too many through
RateLimiter_middleware_OffByOne(rl, clientId, t) ==
  LET info == RolledOver(rl, clientId, t)
      stored == [rl EXCEPT !.store = MapSet(@, clientId, info)]
  IN IF info.burstRequests >= burstCapacity
     THEN [rl |-> stored,
           res |-> TooMany("burst", Ceil(info.burstResetTime - t, 1000))]
     ELSE IF info.requests > maxRequestsPerMinute
     THEN [rl |-> stored,
           res |-> TooMany("minute", Ceil(info.resetTime - t, 1000))]
     ELSE LET counted == [info EXCEPT !.requests = @ + 1, !.burstRequests = @ + 1]
          IN [rl |-> [rl EXCEPT !.store = MapSet(@, clientId, counted)],
              res |-> Admitted(counted)]

\* a middleware that checks the minute limit before the burst limit
RateLimiter_middleware_MinuteFirst(rl, clientId, t) ==
  LET info == RolledOver(rl, clientId, t)
      stored == [rl EXCEPT !.store = MapSet(@, clientId, info)]
  IN IF info.requests >= maxRequestsPerMinute
     THEN [rl |-> stored,
           res |-> TooMany("minute", Ceil(info.resetTime - t, 1000))]
     ELSE IF info.burstRequests >= burstCapacity
     THEN [rl |-> stored,
           res |-> TooMany("burst", Ceil(info.burstResetTime - t, 1000))]
     ELSE LET counted == [info EXCEPT !.requests = @ + 1, !.burstRequests = @ + 1]
          IN [rl |-> [rl EXCEPT !.store = MapSet(@, clientId, counted)],
              res |-> Admitted(counted)]

\* a middleware that counts the request before it checks the limits
RateLimiter_middleware_CountFirst(rl, clientId, t) ==
  LET info == RolledOver(rl, clientId, t)
      counted == [info EXCEPT !.requests = @ + 1, !.burstRequests = @ + 1]
      stored == [rl EXCEPT !.store = MapSet(@, clientId, counted)]
  IN IF info.burstRequests >= burstCapacity
     THEN [rl |-> stored,
           res |-> TooMany("burst", Ceil(info.burstResetTime - t, 1000))]
     ELSE IF info.requests >= maxRequestsPerMinute
     THEN [rl |-> stored,
           res |-> TooMany("minute", Ceil(info.resetTime - t, 1000))]
     ELSE [rl |-> stored, res |-> Admitted(counted)]

\* a middleware that starts a new store when it creates an entry
RateLimiter_middleware_NewStore(rl, clientId, t) ==
  LET info == RolledOver(rl, clientId, t)
      base == IF clientId \in DOMAIN rl.store THEN rl ELSE NewRateLimiter
      stored == [base EXCEPT !.store = MapSet(@, clientId, info)]
  IN IF info.burstRequests >= burstCapacity
     THEN [rl |-> stored,
           res |-> TooMany("burst", Ceil(info.burstResetTime - t, 1000))]
     ELSE IF info.requests >= maxRequestsPerMinute
     THEN [rl |-> stored,
           res |-> TooMany("minute", Ceil(info.resetTime - t, 1000))]
     ELSE LET counted == [info EXCEPT !.requests = @ + 1, !.burstRequests = @ + 1]
          IN [rl |-> [base EXCEPT !.store = MapSet(@, clientId, counted)],
              res |-> Admitted(counted)]

RateLimiter_middleware(rl, clientId, t) ==
  LET info == RolledOver(rl, clientId, t)
      stored == [rl EXCEPT !.store = MapSet(@, clientId, info)]
  IN IF info.burstRequests >= burstCapacity
     THEN [rl |-> stored,
           res |-> TooMany("burst", Ceil(info.burstResetTime - t, 1000))]
     ELSE IF info.requests >= maxRequestsPerMinute
     THEN [rl |-> stored,
           res |-> TooMany("minute", Ceil(info.resetTime - t, 1000))]
     ELSE LET counted == [info EXCEPT !.requests = @ + 1, !.burstRequests = @ + 1]
          IN [rl |-> [rl EXCEPT !.store = MapSet(@, clientId, counted)],
              res |-> Admitted(counted)]

\* a sweep that removes an entry as soon as one of its windows has ended
RateLimiter_cleanup_Either(rl, t) ==
  LET expired == {clientId \in DOMAIN rl.store :
                    \/ t >= rl.store[clientId].resetTime
                    \/ t >= rl.store[clientId].burstResetTime}
  IN [rl EXCEPT !.store = [clientId \in (DOMAIN @) \ expired |-> @[clientId]]]

RateLimiter_cleanup(rl, t) ==
  LET expired == {clientId \in DOMAIN rl.store :
                    /\ t >= rl.store[clientId].resetTime
                    /\ t >= rl.store[clientId].burstResetTime}
  IN [rl EXCEPT !.store = [clientId \in (DOMAIN @) \ expired |-> @[clientId]]]

RateLimiter_getStatus(rl, clientId) ==
  IF clientId \in DOMAIN rl.store THEN rl.store[clientId] ELSE NoInfo

\* limitCall before any request.  prior is the client's entry before the
\* request (NoInfo: none) and rolled the entry after the rollover of lines 39-49
NoRequest == [clientId |-> "", t |-> 0, prior |-> NoInfo, rolled |-> NoInfo,
              res |-> [status |-> 0, limitType |-> "", retryAfter |-> 0,
                       remaining |-> 0, burstRemaining |-> 0, reset |-> 0,
                       burstReset |-> 0]]

\* ---------------------------------------------------------------- history of windows
\* limitWindows holds one record per window the limiter has set up for a
\* client: its kind, its reset time, whether it was set up together with the
\* client's entry (fresh), and the numbers of requests seen and of requests
\* admitted at a time t with reset - length <= t < reset.  Requests seen are
\* counted for fresh burst windows only, up to one past the capacity.
WindowLength(kind) == IF kind = "minute" THEN MinuteWindow ELSE burstWindow

WindowCapacity(kind) == IF kind = "minute" THEN maxRequestsPerMinute ELSE burstCapacity

\* the windows of the entry that the request found or set up
WindowsOf(clientId, info) ==
  {[clientId |-> clientId, kind |-> "minute", reset |-> info.resetTime],
   [clientId |-> clientId, kind |-> "burst", reset |-> info.burstResetTime]}

WindowContains(w, t) == w.reset - WindowLength(w.kind) <= t /\ t < w.reset

LogWindows(log, clientId, info, t, fresh, admitted) ==
  LET known == {[clientId |-> w.clientId, kind |-> w.kind, reset |-> w.reset] : w \in log}
      all == log \cup {[clientId |-> w.clientId, kind |-> w.kind, reset |-> w.reset,
                        fresh |-> fresh, seen |-> 0, admits |-> 0] :
                         w \in WindowsOf(clientId, info) \ known}
  IN {IF w.clientId = clientId /\ WindowContains(w, t)
      THEN [w EXCEPT !.admits = IF admitted THEN @ + 1 ELSE @,
                     !.seen = IF w.fresh /\ w.kind = "burst" /\ @ <= burstCapacity
                              THEN @ + 1 ELSE @]
      ELSE w : w \in all}

\* the record of limitWindows for the client's window of that kind and reset time
WindowOf(log, clientId, kind, reset) ==
  CHOOSE w \in log : w.clientId = clientId /\ w.kind = kind /\ w.reset = reset

\* ---------------------------------------------------------------- history of groups
\* A pending group is the array stored under a key of pendingRequests, from
\* the set() that creates it to the delete() that removes it.  groupLog[g]
\* records its key, the number of processUser calls for that key started
\* while it existed, and how it ended.
GroupOfKey(ap, ps, userId) == ps[ap.pendingRequests[userId][1].w].gid

OpenGroups(ap, ps) == {GroupOfKey(ap, ps, u) : u \in DOMAIN ap.pendingRequests}

\* count the processUser calls that a step has started
LogFetchStarts(log, before, after) ==
  LET started == {i \in DOMAIN after.running :
                    \A j \in DOMAIN before.running : before.running[j] # after.running[i]}
      keys == {after.running[i].userId : i \in started}
  IN [g \in DOMAIN log |->
        IF log[g].closedBy = "open" /\ log[g].key \in keys
        THEN [log[g] EXCEPT !.fetches = @ + 1]
        ELSE log[g]]

\* mark the groups that a step has removed from pendingRequests
LogClosed(log, ps, before, after, how) ==
  LET gone == OpenGroups(before, ps) \ OpenGroups(after, ps)
  IN [g \in DOMAIN log |->
        IF g \in gone THEN [log[g] EXCEPT !.closedBy = how] ELSE log[g]]

\* ---------------------------------------------------------------- users router
\* A request parameter (req.params.id) is a sequence of one-character strings.
DigitOf ==
  ("0" :> 0) @@ ("1" :> 1) @@ ("2" :> 2) @@ ("3" :> 3) @@ ("4" :> 4) @@
  ("5" :> 5) @@ ("6" :> 6) @@ ("7" :> 7) @@ ("8" :> 8) @@ ("9" :> 9)

IsDigit(c) == c \in DOMAIN DigitOf

RECURSIVE SkipSpaces(_)
SkipSpaces(s) == IF s # <<>> /\ Head(s) = " " THEN SkipSpaces(Tail(s)) ELSE s

RECURSIVE DigitsValue(_, _)
\* the value of the longest prefix of s made of digits, after the digits in acc
DigitsValue(s, acc) ==
  IF s # <<>> /\ IsDigit(Head(s))
  THEN DigitsValue(Tail(s), 10 * acc + DigitOf[Head(s)])
  ELSE acc

\* parseInt(s) for s without a 0x prefix: leading blanks, a sign, then the
\* digits up to the first character that is not one; NaN without a digit
parseInt(s) ==
  LET t == SkipSpaces(s)
      signed == t # <<>> /\ Head(t) \in {"-", "+"}
      u == IF signed THEN Tail(t) ELSE t
  IN IF u = <<>> \/ ~IsDigit(Head(u))
     THEN [isNaN |-> TRUE, n |-> 0]
     ELSE [isNaN |-> FALSE,
           n |-> IF signed /\ Head(t) = "-" THEN -DigitsValue(u, 0) ELSE DigitsValue(u, 0)]

\* `user:${userId}`
cacheKey(userId) == "user:" \o ToString(userId)

\* the optional argument customTtl of set left out
NoCustomTtl == [given |-> FALSE, ms |-> 0]

\* what a handler sends: the status and the data or the error of ApiResponse
Reply(status, data, error) == [status |-> status, data |-> data, error |-> error]

NoReply == Reply(0, NoUser, <<>>)

\* error.message.includes('not found'), for the messages processUser throws
IncludesNotFound(message) == Len(message) = 3 /\ message[3] = " not found"

\* a handler that asks the processor even when the cache has the user
Users_getById_SkipCache(c, ap, param, w, t) ==
  LET parsed == parseInt(param)
      userId == parsed.n
      probe == LRUCache_get(c, cacheKey(userId), t)
  IN IF parsed.isNaN
     THEN [lru |-> c, ap |-> ap, userId |-> 0, hit |-> FALSE, awaits |-> FALSE,
           res |-> Reply(400, NoUser, <<"Invalid user ID. Must be a number.">>)]
     ELSE [lru |-> probe.lru,
           ap |-> AsyncProcessor_processUserRequest(ap, userId, w, t),
           userId |-> userId, hit |-> FALSE, awaits |-> TRUE, res |-> NoReply]

\* GET /users/:id up to its return or its await: w names the promise that
\* processUserRequest would return
Users_getById(c, ap, param, w, t) ==
  LET parsed == parseInt(param)
      userId == parsed.n
      probe == LRUCache_get(c, cacheKey(userId), t)
  IN IF parsed.isNaN
     THEN [lru |-> c, ap |-> ap, userId |-> 0, hit |-> FALSE, awaits |-> FALSE,
           res |-> Reply(400, NoUser, <<"Invalid user ID. Must be a number.">>)]
     ELSE IF probe.hit
     THEN [lru |-> probe.lru, ap |-> ap, userId |-> userId, hit |-> TRUE,
           awaits |-> FALSE, res |-> Reply(200, probe.ret, <<>>)]
     ELSE [lru |-> probe.lru,
           ap |-> AsyncProcessor_processUserRequest(ap, userId, w, t),
           userId |-> userId, hit |-> FALSE, awaits |-> TRUE, res |-> NoReply]

\* a handler that stores an entry for the user whatever the outcome was
Users_getByIdResumed_StoreAll(c, userId, outcome, t) ==
  [lru |-> LRUCache_set(c, cacheKey(userId), outcome.user, NoCustomTtl, t),
   res |-> IF outcome.kind = "value"
           THEN Reply(200, outcome.user, <<>>)
           ELSE Reply(IF IncludesNotFound(outcome.message) THEN 404 ELSE 500,
                      NoUser, outcome.message)]

\* GET /users/:id after its await, with the outcome its promise was settled with
Users_getByIdResumed(c, userId, outcome, t) ==
  IF outcome.kind = "value"
  THEN [lru |-> LRUCache_set(c, cacheKey(userId), outcome.user, NoCustomTtl, t),
        res |-> Reply(200, outcome.user, <<>>)]
  ELSE [lru |-> c,
        res |-> Reply(IF IncludesNotFound(outcome.message) THEN 404 ELSE 500,
                      NoUser, outcome.message)]

\* Object.values(this.mockUsers)
AsyncProcessor_getAllUsers(ap) == {ap.mockUsers[id] : id \in DOMAIN ap.mockUsers}

SetMax(ns) == CHOOSE n \in ns : \A m \in ns : m <= n

\* an id taken from the number of users
newId_Count(ap) == Cardinality(AsyncProcessor_getAllUsers(ap))

\* Math.max(...existingUsers.map(u => u.id), 0) + 1
newId(ap) == SetMax({u.id : u \in AsyncProcessor_getAllUsers(ap)} \cup {0}) + 1

\* a POST /users that leaves the cache as it is
Users_post_NoCache(c, ap, body, t) ==
  IF body.name = "" \/ body.email = ""
  THEN [lru |-> c, ap |-> ap,
        res |-> Reply(400, NoUser, <<"Name and email are required">>)]
  ELSE LET newUser == [id |-> newId(ap), name |-> body.name, email |-> body.email]
       IN [lru |-> c,
           ap |-> AsyncProcessor_addUser(ap, newUser),
           res |-> Reply(201, newUser, <<>>)]

\* a POST /users that caches the request body, which has no id yet
Users_post_CacheBody(c, ap, body, t) ==
  IF body.name = "" \/ body.email = ""
  THEN [lru |-> c, ap |-> ap,
        res |-> Reply(400, NoUser, <<"Name and email are required">>)]
  ELSE LET newUser == [id |-> newId(ap), name |-> body.name, email |-> body.email]
       IN [lru |-> LRUCache_set(c, cacheKey(newUser.id),
                                [id |-> 0, name |-> body.name, email |-> body.email],
                                NoCustomTtl, t),
           ap |-> AsyncProcessor_addUser(ap, newUser),
           res |-> Reply(201, newUser, <<>>)]

\* POST /users; !name and !email hold of the empty string and of a missing field
Users_post(c, ap, body, t) ==
  IF body.name = "" \/ body.email = ""
  THEN [lru |-> c, ap |-> ap,
        res |-> Reply(400, NoUser, <<"Name and email are required">>)]
  ELSE LET newUser == [id |-> newId(ap), name |-> body.name, email |-> body.email]
       IN [lru |-> LRUCache_set(c, cacheKey(newUser.id), newUser, NoCustomTtl, t),
           ap |-> AsyncProcessor_addUser(ap, newUser),
           res |-> Reply(201, newUser, <<>>)]

\* GET /cache/status on the cache that setUserCache was given
CacheRoute_status(c) ==
  Reply(200, [hits |-> LRUCache_getStats(c).hits,
              misses |-> LRUCache_getStats(c).misses,
              size |-> LRUCache_getStats(c).size,
              totalKeys |-> CacheSize(c)], <<>>)

\* DELETE /cache
CacheRoute_clear(c) ==
  [lru |-> LRUCache_clear(c),
   res |-> Reply(200, [previousSize |-> LRUCache_getStats(c).size], <<>>)]

\* POST /cache/cleanup
CacheRoute_cleanup(c, t) ==
  LET r == LRUCache_cleanup(c, t)
  IN [lru |-> r.lru,
      res |-> Reply(200, [entriesCleaned |-> r.ret,
                          sizeBefore |-> LRUCache_getStats(c).size,
                          sizeAfter |-> LRUCache_getStats(r.lru).size], <<>>)]

\* svcCall before any request.  op names the route (or "deliver" for the
\* step in which a fetch completes and the waiting handlers answer), userId
\* and gid the user and the pending group it was about, hit whether
\* userCache.get returned an entry, and res the answer.  svcCall goes back to
\* NoAnswer when the clock moves on: it shows what happened at this instant.
NoAnswer == [op |-> "none", userId |-> 0, gid |-> 0, hit |-> FALSE, res |-> NoReply]

\* pipeCall before any request.  param is req.params.id, limit the response
\* of the limiter's middleware, and res the response sent at once (NoReply:
\* the handler awaits the processor)
NoPipeCall == [param |-> <<>>, clientId |-> "", limit |-> NoRequest.res, res |-> NoReply]

\* the error text of the limiter's 429 response
RateLimitError(limitType) ==
  IF limitType = "burst"
  THEN "Too many requests in burst window. Please slow down."
  ELSE "Rate limit exceeded. Too many requests per minute."

\* a pipeline that answers a parameter that is not a number before the
\* limiter sees the request
Pipeline_getUser_ValidateFirst(rl, c, ap, clientId, param, w, t) ==
  LET lim == RateLimiter_middleware(rl, clientId, t)
      r == Users_getById(c, ap, param, w, t)
  IN IF parseInt(param).isNaN
     THEN [rl |-> rl, limit |-> NoRequest.res, routed |-> TRUE, lru |-> r.lru,
           ap |-> r.ap, userId |-> r.userId, hit |-> r.hit, awaits |-> r.awaits,
           res |-> r.res]
     ELSE IF lim.res.status = 429
     THEN [rl |-> lim.rl, limit |-> lim.res, routed |-> FALSE, lru |-> c, ap |-> ap,
           userId |-> 0, hit |-> FALSE, awaits |-> FALSE,
           res |-> Reply(429, NoUser, <<RateLimitError(lim.res.limitType)>>)]
     ELSE [rl |-> lim.rl, limit |-> lim.res, routed |-> TRUE, lru |-> r.lru,
           ap |-> r.ap, userId |-> r.userId, hit |-> r.hit, awaits |-> r.awaits,
           res |-> r.res]

\* GET /api/users/:id through the application: the limiter's middleware is
\* registered before the routers, so it runs first, and the users router
\* runs only when the middleware calls next()
Pipeline_getUser(rl, c, ap, clientId, param, w, t) ==
  LET lim == RateLimiter_middleware(rl, clientId, t)
      r == Users_getById(c, ap, param, w, t)
  IN IF lim.res.status = 429
     THEN [rl |-> lim.rl, limit |-> lim.res, routed |-> FALSE, lru |-> c, ap |-> ap,
           userId |-> 0, hit |-> FALSE, awaits |-> FALSE,
           res |-> Reply(429, NoUser, <<RateLimitError(lim.res.limitType)>>)]
     ELSE [rl |-> lim.rl, limit |-> lim.res, routed |-> TRUE, lru |-> r.lru,
           ap |-> r.ap, userId |-> r.userId, hit |-> r.hit, awaits |-> r.awaits,
           res |-> r.res]

\* A request to the cache router through the application: the limiter's
\* middleware is registered with app.use before every router, the cache
\* router included, so it counts and may reject these requests as well
Pipeline_cache(rl, c, clientId, route, t) ==
  LET lim == RateLimiter_middleware(rl, clientId, t)
      r == CASE route = "status" -> [lru |-> c, res |-> CacheRoute_status(c)]
             [] route = "clear" -> CacheRoute_clear(c)
             [] route = "cleanup" -> CacheRoute_cleanup(c, t)
  IN IF lim.res.status = 429
     THEN [rl |-> lim.rl, limit |-> lim.res, routed |-> FALSE, lru |-> c,
           res |-> Reply(429, NoUser, <<RateLimitError(lim.res.limitType)>>)]
     ELSE [rl |-> lim.rl, limit |-> lim.res, routed |-> TRUE, lru |-> r.lru,
           res |-> r.res]

\* ---------------------------------------------------------------- actions
\* the instants at which the coalescer's events happen: around maxAge
CoTimes == {0, 15000, 29999, 30000, 45000}

\* Date.now() moves on to a later instant
Tick(times) == \E t \in times : t > now /\ now' = t

CoTick ==
  /\ Tick(CoTimes)
  /\ UNCHANGED <<svcVars, coVars, cacheVars, limVars>>

Request(userId) ==
  /\ Len(promises) < MaxWaiters
  /\ LET w == Len(promises) + 1
         fresh == userId \notin DOMAIN asyncProcessor.pendingRequests
         gid == IF fresh THEN Len(groupLog) + 1
                ELSE GroupOfKey(asyncProcessor, promises, userId)
         ap2 == AsyncProcessor_processUserRequest(asyncProcessor, userId, w, now)
         log1 == IF fresh
                 THEN Append(groupLog, [key |-> userId, fetches |-> 0, closedBy |-> "open"])
                 ELSE groupLog
     IN /\ asyncProcessor' = ap2
        /\ promises' = Append(promises, [key |-> userId, gid |-> gid,
                                         outcome |-> PendingOutcome])
        /\ groupLog' = LogFetchStarts(log1, asyncProcessor, ap2)
  /\ UNCHANGED <<svcVars, now, cacheVars, limVars>>

CoRequest == \E userId \in RequestIds : Request(userId)

\* The timer of simulateDatabaseCall fires: setTimeout(resolve, 200) runs its
\* callback no earlier than 200 ms after it was set, and nothing bounds how
\* much later (the loop may be busy, and a key waits in processingQueue for
\* 200 ms per key ahead of it).
FetchComplete ==
  /\ \E i \in DOMAIN asyncProcessor.running :
       /\ now - asyncProcessor.running[i].startTime >= DatabaseDelay
       /\ LET userId == asyncProcessor.running[i].userId
              ap2 == AsyncProcessor_processUserDone(asyncProcessor, i, now)
              ps2 == Deliver(promises, WaitersOf(asyncProcessor, userId),
                             FetchOutcome(asyncProcessor, userId))
          IN /\ asyncProcessor' = ap2
             /\ promises' = ps2
             /\ groupLog' = LogFetchStarts(
                              LogClosed(groupLog, promises, asyncProcessor, ap2, "deliver"),
                              asyncProcessor, ap2)
  /\ UNCHANGED <<svcVars, now, cacheVars, limVars>>

Cleanup ==
  /\ asyncProcessor' = AsyncProcessor_cleanup(asyncProcessor, now)
  /\ asyncProcessor' # asyncProcessor
  /\ groupLog' = LogClosed(groupLog, promises, asyncProcessor, asyncProcessor', "cleanup")
  /\ UNCHANGED <<svcVars, now, promises, cacheVars, limVars>>

AddUser ==
  /\ \E user \in NewUsers :
       /\ user.id \notin DOMAIN asyncProcessor.mockUsers
       /\ asyncProcessor' = AsyncProcessor_addUser(asyncProcessor, user)
  /\ UNCHANGED <<svcVars, now, promises, groupLog, cacheVars, limVars>>

CoInit ==
  /\ now = 0
  /\ asyncProcessor = NewAsyncProcessor
  /\ promises = <<>>
  /\ groupLog = <<>>
  /\ lru = NewLRUCache(100, 60000)
  /\ cacheCall = NoCall
  /\ rateLimiter = NewRateLimiter
  /\ limitCall = NoRequest
  /\ limitWindows = {}
  /\ handlers = <<>>
  /\ serverCache = NewLRUCache(100, 60000)
  /\ svcCall = NoAnswer
  /\ pipeCall = NoPipeCall

CoNext == CoTick \/ CoRequest \/ FetchComplete \/ Cleanup \/ AddUser

SpecCoalescer == CoInit /\ [][CoNext]_vars

\* ---------------------------------------------------------------- actions: coalescer, fair
\* The instants of the fair specification: calls arrive until LastArrival.
\* After it the clock moves on by one DatabaseDelay at a time, and only
\* while a fetch is out whose timer is not yet due, so that every fetch that
\* was queued gets the time it needs: one step per call that can be waiting.
LastArrival == 30000

FairTimes == {0, 29900, LastArrival}
               \cup {LastArrival + DatabaseDelay * i : i \in 1..(MaxWaiters + 1)}

FairTick ==
  /\ \E t \in FairTimes :
       /\ t > now
       /\ now < LastArrival => t <= LastArrival
       /\ now >= LastArrival
            => /\ t = now + DatabaseDelay
               /\ \E i \in DOMAIN asyncProcessor.running :
                    now - asyncProcessor.running[i].startTime < DatabaseDelay
       /\ now' = t
  /\ UNCHANGED <<svcVars, coVars, cacheVars, limVars>>

FairRequest ==
  /\ now <= LastArrival
  /\ \E userId \in {1, 999} : Request(userId)

FairNext == FairTick \/ FairRequest \/ FetchComplete \/ Cleanup

\* Date.now() moves on, and the event loop runs the callback of a timer that
\* is due: the clock and the completion of a fetch are weakly fair.  The
\* calls and cleanup() come from callers, whom nothing obliges.
SpecCoalescerFair ==
  /\ CoInit
  /\ [][FairNext]_vars
  /\ WF_vars(FairTick)
  /\ WF_vars(FetchComplete)

\* ---------------------------------------------------------------- actions: cache
\* the instants at which the cache's events happen: around the default ttl
CacheTimes == {0, 60000, 60001}

CacheTick ==
  /\ Tick(CacheTimes)
  /\ UNCHANGED <<svcVars, coVars, cacheVars, limVars>>

CacheGet ==
  /\ lru.stats.hits + lru.stats.misses < MaxProbes
  /\ \E key \in CacheKeys :
       LET r == LRUCache_get(lru, key, now)
       IN /\ lru' = r.lru
          /\ cacheCall' = [op |-> "get", key |-> key, ret |-> r.ret, count |-> 0,
                           pos |-> IndexOf(lru.accessOrder, key)]
  /\ UNCHANGED <<svcVars, now, coVars, limVars>>

CacheSet ==
  /\ \E key \in CacheKeys, value \in CacheValues, customTtl \in CustomTtls :
       /\ lru' = LRUCache_set(lru, key, value, customTtl, now)
       /\ cacheCall' = [op |-> "set", key |-> key, ret |-> Null, count |-> 0,
                        pos |-> IndexOf(lru.accessOrder, key)]
  /\ UNCHANGED <<svcVars, now, coVars, limVars>>

CacheDelete ==
  /\ \E key \in CacheKeys :
       LET r == LRUCache_delete(lru, key)
       IN /\ lru' = r.lru
          /\ cacheCall' = [op |-> "delete", key |-> key, ret |-> Null,
                           count |-> IF r.ret THEN 1 ELSE 0,
                           pos |-> IndexOf(lru.accessOrder, key)]
  /\ UNCHANGED <<svcVars, now, coVars, limVars>>

CacheClear ==
  /\ lru' = LRUCache_clear(lru)
  /\ cacheCall' = [op |-> "clear", key |-> "", ret |-> Null, count |-> 0, pos |-> 0]
  /\ UNCHANGED <<svcVars, now, coVars, limVars>>

CacheCleanup ==
  /\ LET r == LRUCache_cleanup(lru, now)
     IN /\ lru' = r.lru
        /\ cacheCall' = [op |-> "cleanup", key |-> "", ret |-> Null, count |-> r.ret,
                         pos |-> 0]
  /\ UNCHANGED <<svcVars, now, coVars, limVars>>

CacheInit ==
  /\ now = 0
  /\ asyncProcessor = NewAsyncProcessor
  /\ promises = <<>>
  /\ groupLog = <<>>
  /\ \E maxSize \in 1..MaxCapacity : lru = NewLRUCache(maxSize, DefaultTtl)
  /\ cacheCall = NoCall
  /\ rateLimiter = NewRateLimiter
  /\ limitCall = NoRequest
  /\ limitWindows = {}
  /\ handlers = <<>>
  /\ serverCache = NewLRUCache(100, 60000)
  /\ svcCall = NoAnswer
  /\ pipeCall = NoPipeCall

CacheNext == CacheTick \/ CacheGet \/ CacheSet \/ CacheDelete \/ CacheClear \/ CacheCleanup

SpecCache == CacheInit /\ [][CacheNext]_vars

\* ---------------------------------------------------------------- actions: limiter
\* the instants at which the limiter's events happen: inside the first burst
\* window, at its end, inside the last burst window of the first minute, and
\* around the end of the first minute
LimitTimes == {0, 9001, 10000, 55000, 60000, 60001}

\* the peers that send requests, and the instants at which each may send: one
\* with an address, and one without that sends at instant 0 only
Peers == {[ip |-> "10.0.0.1", remoteAddress |-> "10.0.0.1", sends |-> LimitTimes],
          [ip |-> "", remoteAddress |-> "", sends |-> {0}]}

LimitTick ==
  /\ Tick(LimitTimes)
  /\ UNCHANGED <<svcVars, coVars, cacheVars, limVars>>

LimitRequest ==
  /\ \E peer \in {p \in Peers : now \in p.sends} :
       LET clientId == getClientId(peer.ip, peer.remoteAddress)
           r == RateLimiter_middleware(rateLimiter, clientId, now)
       IN /\ rateLimiter' = r.rl
          /\ limitCall' = [clientId |-> clientId, t |-> now,
                           prior |-> RateLimiter_getStatus(rateLimiter, clientId),
                           rolled |-> RolledOver(rateLimiter, clientId, now),
                           res |-> r.res]
          /\ limitWindows' = LogWindows(limitWindows, clientId,
                                        RolledOver(rateLimiter, clientId, now),
                                        now, clientId \notin DOMAIN rateLimiter.store,
                                        r.res.status = 200)
  /\ UNCHANGED <<svcVars, now, coVars, cacheVars>>

LimitCleanup ==
  /\ rateLimiter' = RateLimiter_cleanup(rateLimiter, now)
  /\ rateLimiter' # rateLimiter
  /\ UNCHANGED <<svcVars, now, coVars, cacheVars, limitCall, limitWindows>>

LimitInit ==
  /\ now = 0
  /\ asyncProcessor = NewAsyncProcessor
  /\ promises = <<>>
  /\ groupLog = <<>>
  /\ lru = NewLRUCache(100, 60000)
  /\ cacheCall = NoCall
  /\ rateLimiter = NewRateLimiter
  /\ limitCall = NoRequest
  /\ limitWindows = {}
  /\ handlers = <<>>
  /\ serverCache = NewLRUCache(100, 60000)
  /\ svcCall = NoAnswer
  /\ pipeCall = NoPipeCall

LimitNext == LimitTick \/ LimitRequest \/ LimitCleanup

SpecLimiter == LimitInit /\ [][LimitNext]_vars

\* ---------------------------------------------------------------- actions: service
\* The users router with the userCache and the asyncProcessor it creates
\* (routes/users lines 36-37), and the cache router with the userCache that
\* server.ts creates and hands to setUserCache.  lru, asyncProcessor,
\* promises and groupLog are the users router's here, and the requests are
\* those that the rate limiter has let through.

\* the instants at which the service's events happen: a fetch started at 0
\* completes at 200, and the entry it stores is 60000 ms old at 60200
SvcTimes == {0, 200, 60200, 60201}

\* req.params.id: a stored user, a user that is stored once it is created,
\* and a parameter that is not a number
SvcParams == {<<"2">>, <<"4">>, <<"a", "b", "c">>}

\* req.body
SvcBodies == {[name |-> "Test User", email |-> "test@example.com"],
              [name |-> "", email |-> "test@example.com"]}

\* the requests that have reached the users router and changed its state
SvcRequests == Len(handlers) + Cardinality(DOMAIN asyncProcessor.mockUsers)
                 - Cardinality(DOMAIN InitialMockUsers)

SvcTick ==
  /\ Tick(SvcTimes)
  /\ svcCall' = NoAnswer
  /\ UNCHANGED <<coVars, cacheVars, limVars, handlers, serverCache, pipeCall>>

\* what the GET /users/:id handler, run with the outcome r and the promise
\* number w, leaves behind: the router's cache and processor, its promise if
\* it awaits one, the group it opened, and the handler itself
UsersGetRouted(r, w) ==
  LET fresh == r.userId \notin DOMAIN asyncProcessor.pendingRequests
      gid == IF ~r.awaits THEN 0
             ELSE IF fresh THEN Len(groupLog) + 1
             ELSE GroupOfKey(asyncProcessor, promises, r.userId)
      log1 == IF r.awaits /\ fresh
              THEN Append(groupLog, [key |-> r.userId, fetches |-> 0,
                                     closedBy |-> "open"])
              ELSE groupLog
  IN /\ lru' = r.lru
     /\ asyncProcessor' = r.ap
     /\ promises' = IF r.awaits
                    THEN Append(promises, [key |-> r.userId, gid |-> gid,
                                           outcome |-> PendingOutcome])
                    ELSE promises
     /\ groupLog' = LogFetchStarts(log1, asyncProcessor, r.ap)
     /\ handlers' = Append(handlers,
                           [userId |-> r.userId, w |-> IF r.awaits THEN w ELSE 0,
                            hit |-> r.hit, res |-> r.res, closed |-> FALSE])
     /\ svcCall' = [op |-> "get", userId |-> r.userId, gid |-> gid,
                    hit |-> r.hit, res |-> r.res]

UsersGet ==
  /\ SvcRequests < MaxRequests
  /\ \E param \in SvcParams :
       UsersGetRouted(Users_getById(lru, asyncProcessor, param, Len(promises) + 1, now),
                      Len(promises) + 1)
  /\ UNCHANGED <<now, cacheCall, limVars, serverCache, pipeCall>>

RECURSIVE ResumeHandlers_SkipClosed(_, _, _, _, _)
\* continuations that end without a word when the client has closed the
\* connection
ResumeHandlers_SkipClosed(c, hs, waiters, outcome, t) ==
  IF waiters = <<>>
  THEN [lru |-> c, handlers |-> hs]
  ELSE LET h == CHOOSE i \in DOMAIN hs : hs[i].w = Head(waiters).w
           r == Users_getByIdResumed(c, hs[h].userId, outcome, t)
       IN IF hs[h].closed
          THEN ResumeHandlers_SkipClosed(c, hs, Tail(waiters), outcome, t)
          ELSE ResumeHandlers_SkipClosed(r.lru, [hs EXCEPT ![h].res = r.res],
                                         Tail(waiters), outcome, t)

RECURSIVE ResumeHandlers(_, _, _, _, _)
\* the continuations of the handlers that await the promises of waiters, in
\* the order in which forEach settled them
ResumeHandlers(c, hs, waiters, outcome, t) ==
  IF waiters = <<>>
  THEN [lru |-> c, handlers |-> hs]
  ELSE LET h == CHOOSE i \in DOMAIN hs : hs[i].w = Head(waiters).w
           r == Users_getByIdResumed(c, hs[h].userId, outcome, t)
       IN ResumeHandlers(r.lru, [hs EXCEPT ![h].res = r.res], Tail(waiters), outcome, t)

\* The timer of simulateDatabaseCall fires; processUser settles the waiters,
\* and their handlers and processQueue go on in the microtasks that follow,
\* before any other request or timer is served.
SvcFetchComplete ==
  /\ \E i \in DOMAIN asyncProcessor.running :
       /\ now - asyncProcessor.running[i].startTime >= DatabaseDelay
       /\ LET userId == asyncProcessor.running[i].userId
              waiters == WaitersOf(asyncProcessor, userId)
              outcome == FetchOutcome(asyncProcessor, userId)
              ap2 == AsyncProcessor_processUserDone(asyncProcessor, i, now)
              resumed == ResumeHandlers(lru, handlers, waiters, outcome, now)
          IN /\ asyncProcessor' = ap2
             /\ promises' = Deliver(promises, waiters, outcome)
             /\ groupLog' = LogFetchStarts(
                              LogClosed(groupLog, promises, asyncProcessor, ap2, "deliver"),
                              asyncProcessor, ap2)
             /\ lru' = resumed.lru
             /\ handlers' = resumed.handlers
             /\ svcCall' = [op |-> "deliver", userId |-> userId,
                            gid |-> IF waiters = <<>> THEN 0
                                    ELSE promises[waiters[1].w].gid,
                            hit |-> FALSE,
                            res |-> Users_getByIdResumed(lru, userId, outcome, now).res]
  /\ UNCHANGED <<now, cacheCall, limVars, serverCache, pipeCall>>

UsersPost ==
  /\ SvcRequests < MaxRequests
  /\ \E body \in SvcBodies :
       LET r == Users_post(lru, asyncProcessor, body, now)
       IN /\ lru' = r.lru
          /\ asyncProcessor' = r.ap
          /\ svcCall' = [op |-> "post", userId |-> r.res.data.id, gid |-> 0,
                         hit |-> FALSE, res |-> r.res]
  /\ UNCHANGED <<now, promises, groupLog, cacheCall, limVars, handlers, serverCache, pipeCall>>

CacheStatus ==
  /\ svcCall' = [op |-> "status", userId |-> 0, gid |-> 0, hit |-> FALSE,
                 res |-> CacheRoute_status(serverCache)]
  /\ UNCHANGED <<now, coVars, cacheVars, limVars, handlers, serverCache, pipeCall>>

CacheRouteClear ==
  /\ LET r == CacheRoute_clear(serverCache)
     IN /\ serverCache' = r.lru
        /\ svcCall' = [op |-> "clear", userId |-> 0, gid |-> 0, hit |-> FALSE,
                       res |-> r.res]
  /\ UNCHANGED <<now, coVars, cacheVars, limVars, handlers, pipeCall>>

\* POST /cache/cleanup
CacheRouteCleanup ==
  /\ LET r == CacheRoute_cleanup(serverCache, now)
     IN /\ serverCache' = r.lru
        /\ svcCall' = [op |-> "cleanup", userId |-> 0, gid |-> 0, hit |-> FALSE,
                       res |-> r.res]
  /\ UNCHANGED <<now, coVars, cacheVars, limVars, handlers, pipeCall>>

\* the period of the cache cleanup that startBackgroundTasks sets up
CacheSweepPeriod == 30000

\* The callback of setInterval(..., 30000) in startBackgroundTasks, which is
\* called when the server starts to listen, at 0: it runs no earlier than
\* one period after that, and cleans the userCache of server.ts.
BackgroundCacheCleanup ==
  /\ now >= CacheSweepPeriod
  /\ serverCache' = LRUCache_cleanup(serverCache, now).lru
  /\ svcCall' = [op |-> "sweep", userId |-> 0, gid |-> 0, hit |-> FALSE,
                 res |-> NoReply]
  /\ UNCHANGED <<now, coVars, cacheVars, limVars, handlers, pipeCall>>

SvcInit ==
  /\ now = 0
  /\ asyncProcessor = NewAsyncProcessor
  /\ promises = <<>>
  /\ groupLog = <<>>
  /\ lru = NewLRUCache(100, 60000)
  /\ cacheCall = NoCall
  /\ rateLimiter = NewRateLimiter
  /\ limitCall = NoRequest
  /\ limitWindows = {}
  /\ handlers = <<>>
  /\ serverCache = NewLRUCache(100, 60000)
  /\ svcCall = NoAnswer
  /\ pipeCall = NoPipeCall

SvcNext ==
  \/ SvcTick \/ UsersGet \/ SvcFetchComplete \/ UsersPost
  \/ CacheStatus \/ CacheRouteClear \/ CacheRouteCleanup
  \/ BackgroundCacheCleanup

SpecService == SvcInit /\ [][SvcNext]_vars

\* ---------------------------------------------------------------- actions: pipeline
\* The application as server.ts assembles it for GET /api/users/:id: the
\* limiter's middleware, then the users router with its cache and processor.

\* the instants of the pipeline's events: a fetch started at 0 completes at 200
PipeTimes == {0, 200}

\* req.params.id: a stored user, zero, a negative number, and a parameter
\* that is not a number
PipeParams == {<<"2">>, <<"0">>, <<"-", "1">>, <<"a", "b", "c">>}

\* the peer that sends the requests
PipePeer == [ip |-> "10.0.0.1", remoteAddress |-> "10.0.0.1"]

PipeTick ==
  /\ Tick(PipeTimes)
  /\ svcCall' = NoAnswer
  /\ pipeCall' = NoPipeCall
  /\ UNCHANGED <<coVars, cacheVars, limVars, handlers, serverCache>>

PipeRequestFrom(params) ==
  /\ \E param \in params :
       LET clientId == getClientId(PipePeer.ip, PipePeer.remoteAddress)
           w == Len(promises) + 1
           r == Pipeline_getUser(rateLimiter, lru, asyncProcessor, clientId, param, w, now)
       IN /\ rateLimiter' = r.rl
          /\ limitCall' = [clientId |-> clientId, t |-> now,
                           prior |-> RateLimiter_getStatus(rateLimiter, clientId),
                           rolled |-> RolledOver(rateLimiter, clientId, now),
                           res |-> r.limit]
          /\ limitWindows' = LogWindows(limitWindows, clientId,
                                        RolledOver(rateLimiter, clientId, now),
                                        now, clientId \notin DOMAIN rateLimiter.store,
                                        r.limit.status = 200)
          /\ pipeCall' = [param |-> param, clientId |-> clientId, limit |-> r.limit,
                          res |-> r.res]
          /\ IF r.routed
             THEN UsersGetRouted(r, w)
             ELSE /\ svcCall' = [op |-> "limited", userId |-> 0, gid |-> 0,
                                 hit |-> FALSE, res |-> r.res]
                  /\ UNCHANGED <<coVars, lru, handlers>>
  /\ UNCHANGED <<now, cacheCall, serverCache>>

PipeRequest == PipeRequestFrom(PipeParams)

PipeInit ==
  /\ now = 0
  /\ asyncProcessor = NewAsyncProcessor
  /\ promises = <<>>
  /\ groupLog = <<>>
  /\ lru = NewLRUCache(100, 60000)
  /\ cacheCall = NoCall
  /\ rateLimiter = NewRateLimiter
  /\ limitCall = NoRequest
  /\ limitWindows = {}
  /\ handlers = <<>>
  /\ serverCache = NewLRUCache(100, 60000)
  /\ svcCall = NoAnswer
  /\ pipeCall = NoPipeCall

PipeNext == PipeTick \/ PipeRequest \/ SvcFetchComplete

SpecPipeline == PipeInit /\ [][PipeNext]_vars

\* ---------------------------------------------------------------- actions: cache routes
\* GET /api/users/:id and the three routes of the cache router, sent by one
\* peer to the application
CacheRouteTimes == {0, 200, 10000}

CacheRoutes == {"status", "clear", "cleanup"}

CacheRouteTick ==
  /\ Tick(CacheRouteTimes)
  /\ svcCall' = NoAnswer
  /\ pipeCall' = NoPipeCall
  /\ UNCHANGED <<coVars, cacheVars, limVars, handlers, serverCache>>

CacheRouteGet == PipeRequestFrom({<<"2">>})

\* GET /api/cache/status, DELETE /api/cache or POST /api/cache/cleanup; the
\* request has no id parameter
CacheRouteRequest ==
  /\ \E route \in CacheRoutes :
       LET clientId == getClientId(PipePeer.ip, PipePeer.remoteAddress)
           r == Pipeline_cache(rateLimiter, serverCache, clientId, route, now)
       IN /\ rateLimiter' = r.rl
          /\ limitCall' = [clientId |-> clientId, t |-> now,
                           prior |-> RateLimiter_getStatus(rateLimiter, clientId),
                           rolled |-> RolledOver(rateLimiter, clientId, now),
                           res |-> r.limit]
          /\ limitWindows' = LogWindows(limitWindows, clientId,
                                        RolledOver(rateLimiter, clientId, now),
                                        now, clientId \notin DOMAIN rateLimiter.store,
                                        r.limit.status = 200)
          /\ pipeCall' = [param |-> <<>>, clientId |-> clientId, limit |-> r.limit,
                          res |-> r.res]
          /\ serverCache' = r.lru
          /\ svcCall' = [op |-> IF r.routed THEN route ELSE "limited", userId |-> 0,
                         gid |-> 0, hit |-> FALSE, res |-> r.res]
  /\ UNCHANGED <<now, coVars, cacheVars, handlers>>

CacheRouteNext ==
  CacheRouteTick \/ CacheRouteGet \/ CacheRouteRequest \/ SvcFetchComplete

SpecCacheRoutes == PipeInit /\ [][CacheRouteNext]_vars

\* ---------------------------------------------------------------- actions: router and sweep
\* The users router's handlers with an AsyncProcessor on which cleanup is
\* called, and clients that close their connections while they wait.

\* the instants of these events: a fetch started at 0 completes at 200 or
\* later, and a waiter that came at 0 is older than 30000 ms at 30001
SweepTimes == {0, 200, 30001}

\* req.params.id: two stored users
SweepParams == {<<"1">>, <<"2">>}

SweepTick ==
  /\ Tick(SweepTimes)
  /\ svcCall' = NoAnswer
  /\ UNCHANGED <<coVars, cacheVars, limVars, handlers, serverCache, pipeCall>>

SweepGet ==
  /\ SvcRequests < MaxRequests
  /\ \E param \in SweepParams :
       UsersGetRouted(Users_getById(lru, asyncProcessor, param, Len(promises) + 1, now),
                      Len(promises) + 1)
  /\ UNCHANGED <<now, cacheCall, limVars, serverCache, pipeCall>>

\* The client of a handler that awaits its promise closes the connection.
\* The handler has no listener for it: it stays as it is.
UsersDisconnect ==
  /\ \E i \in DOMAIN handlers :
       /\ handlers[i].w > 0
       /\ handlers[i].res = NoReply
       /\ ~handlers[i].closed
       /\ handlers' = [handlers EXCEPT ![i].closed = TRUE]
  /\ UNCHANGED <<now, coVars, cacheVars, limVars, serverCache, svcCall, pipeCall>>

SweepInit ==
  /\ now = 0
  /\ asyncProcessor = NewAsyncProcessor
  /\ promises = <<>>
  /\ groupLog = <<>>
  /\ lru = NewLRUCache(100, 60000)
  /\ cacheCall = NoCall
  /\ rateLimiter = NewRateLimiter
  /\ limitCall = NoRequest
  /\ limitWindows = {}
  /\ handlers = <<>>
  /\ serverCache = NewLRUCache(100, 60000)
  /\ svcCall = NoAnswer
  /\ pipeCall = NoPipeCall

SweepNext == SweepTick \/ SweepGet \/ UsersDisconnect \/ Cleanup \/ SvcFetchComplete

SpecSweep == SweepInit /\ [][SweepNext]_vars

\* ---------------------------------------------------------------- claims: coalescer
FetchesInFlight(userId) ==
  Cardinality({i \in DOMAIN asyncProcessor.running :
                 asyncProcessor.running[i].userId = userId})

\* C1: single-flight.  For every key at most one processUser call is in
\* flight, no pending group sees two processUser calls for its key start
\* during its lifetime, and a group that has ended (by delivery or by
\* cleanup) has seen exactly one.
C1_SingleFlight ==
  /\ \A userId \in RequestIds : FetchesInFlight(userId) <= 1
  /\ \A g \in DOMAIN groupLog :
       /\ groupLog[g].fetches <= 1
       /\ groupLog[g].closedBy # "open" => groupLog[g].fetches = 1

\* C2: fan-out.  Once a group has been delivered, every promise that was
\* attached to it is settled, and all of them with the same outcome.
C2_FanOut ==
  \A w1, w2 \in DOMAIN promises :
    (/\ promises[w1].gid = promises[w2].gid
     /\ groupLog[promises[w1].gid].closedBy = "deliver")
    => /\ promises[w1].outcome.kind # "pending"
       /\ promises[w1].outcome = promises[w2].outcome

\* the promises of the waiters stored under userId (none: no pending group)
WaiterSet(ap, userId) ==
  {WaitersOf(ap, userId)[i].w : i \in DOMAIN WaitersOf(ap, userId)}

\* the step is a call of cleanup that has changed pendingRequests
CoCleanupStep ==
  /\ asyncProcessor'.pendingRequests # asyncProcessor.pendingRequests
  /\ asyncProcessor'.running = asyncProcessor.running
  /\ Len(promises') = Len(promises)

\* C14: stale-group reclamation.  A call of cleanup that finds a pending
\* group whose first waiter is older than 30000 ms removes the group and
\* settles every waiter of it with an error.
C14_StaleTimeout ==
  [][CoCleanupStep =>
       \A userId \in DOMAIN asyncProcessor.pendingRequests :
         now - asyncProcessor.pendingRequests[userId][1].timestamp > CoalescerMaxAge
         => /\ userId \notin DOMAIN asyncProcessor'.pendingRequests
            /\ \A w \in WaiterSet(asyncProcessor, userId) :
                 promises'[w].outcome.kind = "error"]_vars

\* C15: one outcome per waiter, no partial delivery.  In every step a
\* pending group either keeps all its waiters, all of them still pending, or
\* loses all of them, each with an outcome; and an outcome, once given, stays.
C15_NoPartialDelivery ==
  /\ [][\A userId \in DOMAIN asyncProcessor.pendingRequests :
          LET before == WaiterSet(asyncProcessor, userId)
              after == WaiterSet(asyncProcessor', userId)
          IN \/ /\ before \subseteq after
                /\ \A w \in before : promises'[w].outcome.kind = "pending"
             \/ /\ before \cap after = {}
                /\ \A w \in before : promises'[w].outcome.kind # "pending"]_vars
  /\ [][\A w \in DOMAIN promises :
          promises[w].outcome.kind # "pending"
          => promises'[w].outcome = promises[w].outcome]_vars

\* the step is a call of processUserRequest
CoRequestStep == Len(promises') = Len(promises) + 1

\* C16: deliver-and-destroy is atomic.  No waiter stored in pendingRequests
\* has been settled, so a caller never joins a group that has delivered; and
\* a caller that finds no pending group for its user gets a group of its own
\* and puts its user in the queue, or starts the fetch at once.
C16_DeliverDestroyAtomic ==
  /\ [](\A userId \in DOMAIN asyncProcessor.pendingRequests :
          \A w \in WaiterSet(asyncProcessor, userId) :
            promises[w].outcome.kind = "pending")
  /\ [][CoRequestStep =>
          LET w == Len(promises')
              userId == promises'[w].key
          IN /\ w \in WaiterSet(asyncProcessor', userId)
             /\ groupLog'[promises'[w].gid].closedBy = "open"
             /\ userId \notin DOMAIN asyncProcessor.pendingRequests
                => /\ WaiterSet(asyncProcessor', userId) = {w}
                   /\ \A v \in DOMAIN promises : promises[v].gid # promises'[w].gid
                   /\ \/ asyncProcessor'.processingQueue =
                           Append(asyncProcessor.processingQueue, userId)
                      \/ asyncProcessor'.running =
                           Append(asyncProcessor.running,
                                  [userId |-> userId, startTime |-> now])]_vars

\* a caller for a user whose earlier group has delivered: it waits in a
\* group of its own, with the user's fetch started after that delivery
C16_Witness ==
  \E v, w \in DOMAIN promises :
    /\ v < w
    /\ promises[v].key = promises[w].key
    /\ promises[v].outcome.kind = "value"
    /\ groupLog[promises[v].gid].closedBy = "deliver"
    /\ promises[w].outcome.kind = "pending"
    /\ promises[w].gid # promises[v].gid
    /\ WaiterSet(asyncProcessor, promises[w].key) = {w}
    /\ \E i \in DOMAIN asyncProcessor.running :
         asyncProcessor.running[i].userId = promises[w].key

\* C36: at most one processUser call is in flight over all keys; the fetches
\* start in the order in which the pending groups were installed (a group has
\* seen a fetch for its key start only if every group installed before it
\* has); and a group is delivered only when every group installed before it
\* has been delivered
C36_SerializedFetches ==
  /\ Len(asyncProcessor.running) <= 1
  /\ \A g1, g2 \in DOMAIN groupLog :
       g1 < g2
         => /\ groupLog[g2].fetches >= 1 => groupLog[g1].fetches >= 1
            /\ groupLog[g2].closedBy = "deliver" => groupLog[g1].closedBy = "deliver"

\* C33: under fair scheduling of the timers every call of processUserRequest
\* eventually settles, also when cleanup() runs while it is pending: no
\* promise stays pending for ever.
C33_EveryCallSettles ==
  \A w \in 1..MaxWaiters :
    (Len(promises) >= w)
      ~> (Len(promises) >= w /\ promises[w].outcome.kind # "pending")

\* ---------------------------------------------------------------- claims: cache
\* the step is the call op on lru (every call leaves the clock alone and
\* records itself in cacheCall)
CacheStep(op) == now' = now /\ cacheCall'.op = op

\* C3: capacity.  The number of stored entries never exceeds maxSize.
C3_Capacity == CacheSize(lru) <= lru.maxSize

\* C4: LRU eviction.  A set of an absent key at size = maxSize removes
\* exactly one entry, the one whose key is first in the access order, and
\* keeps every other entry as it was.
C4_LRUEviction ==
  [][(/\ CacheStep("set")
      /\ cacheCall'.key \notin DOMAIN lru.cache
      /\ CacheSize(lru) = lru.maxSize)
     => /\ Len(lru.accessOrder) > 0
        /\ DOMAIN lru'.cache =
             ((DOMAIN lru.cache) \ {Head(lru.accessOrder)}) \cup {cacheCall'.key}
        /\ CacheSize(lru') = CacheSize(lru)
        /\ \A k \in (DOMAIN lru.cache) \ {Head(lru.accessOrder)} :
             lru'.cache[k] = lru.cache[k]]_vars

\* C5: recency.  Right after a get that hits, and right after any set, the
\* key of the call is the last one in the access order.
C5_Recency ==
  (\/ cacheCall.op = "set"
   \/ cacheCall.op = "get" /\ cacheCall.ret # Null)
  => /\ Len(lru.accessOrder) > 0
     /\ lru.accessOrder[Len(lru.accessOrder)] = cacheCall.key

\* a hit on a key that was in the access order but not last in it
C5_Witness ==
  /\ cacheCall.op = "get"
  /\ cacheCall.ret # Null
  /\ cacheCall.pos > 0
  /\ cacheCall.pos < Len(lru.accessOrder)
  /\ lru.accessOrder[Len(lru.accessOrder)] = cacheCall.key

\* C6: freshness.  get(k) returns the stored value if an entry for k exists
\* and its age is at most its ttl, and null otherwise.
C6_Freshness ==
  [][CacheStep("get")
     => LET k == cacheCall'.key
        IN cacheCall'.ret =
             IF k \in DOMAIN lru.cache
                /\ now - lru.cache[k].timestamp <= lru.cache[k].ttl
             THEN lru.cache[k].data
             ELSE Null]_vars

\* a get that returned the value of an entry whose age equals its ttl
C6_Witness ==
  /\ cacheCall.op = "get"
  /\ cacheCall.ret # Null
  /\ cacheCall.key \in DOMAIN lru.cache
  /\ now - lru.cache[cacheCall.key].timestamp = lru.cache[cacheCall.key].ttl
  /\ cacheCall.ret = lru.cache[cacheCall.key].data

\* C21: when cleanup returns, no entry left in the cache is expired at the
\* clock value the sweep read, every entry that was fresh at that value (age
\* at most its ttl) is still there unchanged, nothing was added, and the
\* number returned is the number of entries removed
C21_SweepSoundness ==
  [][CacheStep("cleanup")
     => /\ \A k \in DOMAIN lru'.cache :
             now - lru'.cache[k].timestamp <= lru'.cache[k].ttl
        /\ \A k \in DOMAIN lru.cache :
             now - lru.cache[k].timestamp <= lru.cache[k].ttl
               => k \in DOMAIN lru'.cache /\ lru'.cache[k] = lru.cache[k]
        /\ DOMAIN lru'.cache \subseteq DOMAIN lru.cache
        /\ cacheCall'.count =
             Cardinality((DOMAIN lru.cache) \ (DOMAIN lru'.cache))]_vars

\* a sweep has removed an expired entry and kept a fresh one
C21_Witness ==
  /\ cacheCall.op = "cleanup"
  /\ cacheCall.count = 1
  /\ \E k \in DOMAIN lru.cache :
       /\ lru.cache[k].timestamp > 0
       /\ now - lru.cache[k].timestamp <= lru.cache[k].ttl
       /\ lru.accessOrder = <<k>>

\* C22: in every state the keys of the map are the keys of the access order,
\* and each key is in the access order once
C22_OrderConsistent ==
  /\ {lru.accessOrder[i] : i \in DOMAIN lru.accessOrder} = DOMAIN lru.cache
  /\ Len(lru.accessOrder) = CacheSize(lru)

\* C25: a clear made right after a clear changes nothing (map, access order,
\* counters and size), and clearing any cache state twice gives what clearing
\* it once gives
C25_IdempotentClear ==
  /\ [](LRUCache_clear(LRUCache_clear(lru)) = LRUCache_clear(lru))
  /\ [][(CacheStep("clear") /\ cacheCall.op = "clear") => lru' = lru]_vars

\* a clear has emptied a cache whose counters had moved
C25_Witness ==
  /\ cacheCall.op = "clear"
  /\ CacheSize(lru) = 0
  /\ lru.accessOrder = <<>>
  /\ LRUCache_getStats(lru).size = 0
  /\ LRUCache_getStats(lru).hits > 0
  /\ LRUCache_getStats(lru).misses > 0

\* C29: a set of an absent key at capacity removes the least recently used
\* key and nothing else, whatever the ages of the entries; any other set
\* removes nothing; every set leaves the other entries as they were; and an
\* expired entry leaves the map only by a get or a delete of its key, by
\* cleanup, by clear, or as the least recently used key of a set at capacity
C29_NoOpportunisticEviction ==
  [][(now' = now /\ cacheCall' # cacheCall)
     => LET k == cacheCall'.key
            op == cacheCall'.op
            full == k \notin DOMAIN lru.cache /\ CacheSize(lru) >= lru.maxSize
            gone == (DOMAIN lru.cache) \ (DOMAIN lru'.cache)
        IN /\ (op = "set" /\ full)
                => /\ lru.accessOrder # <<>>
                   /\ DOMAIN lru'.cache =
                        ((DOMAIN lru.cache) \ {Head(lru.accessOrder)}) \cup {k}
           /\ (op = "set" /\ ~full) => DOMAIN lru'.cache = (DOMAIN lru.cache) \cup {k}
           /\ op = "set"
                => \A j \in ((DOMAIN lru.cache) \cap (DOMAIN lru'.cache)) \ {k} :
                     lru'.cache[j] = lru.cache[j]
           /\ \A j \in gone :
                Expired(lru.cache[j], now)
                  => \/ op \in {"get", "delete"} /\ k = j
                     \/ op \in {"cleanup", "clear"}
                     \/ op = "set" /\ full /\ j = Head(lru.accessOrder)]_vars

\* ---------------------------------------------------------------- claims: limiter
\* C7: limiter bound.  In no window that the limiter has set up for a client
\* does the number of admitted requests exceed the window's capacity.
C7_LimiterBound ==
  \A w \in limitWindows : w.admits <= WindowCapacity(w.kind)

\* a minute window with all ten admits, and a request rejected in it
C7_Witness ==
  /\ limitCall.res.status = 429
  /\ limitCall.res.limitType = "minute"
  /\ \E w \in limitWindows :
       /\ w.clientId = limitCall.clientId
       /\ w.kind = "minute"
       /\ w.reset = limitCall.rolled.resetTime
       /\ w.admits = maxRequestsPerMinute
       /\ WindowContains(w, limitCall.t)

\* both counters of the client are at their limits after the rollover
BothExhausted(info) ==
  info.burstRequests >= burstCapacity /\ info.requests >= maxRequestsPerMinute

\* C8: tier precedence.  A request that finds both counters at their limits
\* is rejected with limitType burst and the retryAfter of the burst window.
C8_TierPrecedence ==
  (limitCall.clientId # "" /\ BothExhausted(limitCall.rolled))
  => /\ limitCall.res.status = 429
     /\ limitCall.res.limitType = "burst"
     /\ limitCall.res.retryAfter = Ceil(limitCall.rolled.burstResetTime - limitCall.t, 1000)

\* such a rejection, where the minute window would have given another retryAfter
C8_Witness ==
  /\ limitCall.res.status = 429
  /\ BothExhausted(limitCall.rolled)
  /\ limitCall.res.limitType = "burst"
  /\ limitCall.res.retryAfter # Ceil(limitCall.rolled.resetTime - limitCall.t, 1000)

\* the burst window that the last request fell into
CallBurstWindow ==
  WindowOf(limitWindows, limitCall.clientId, "burst", limitCall.rolled.burstResetTime)

\* C9: burst limit.  In the burst window set up with a client's entry, the
\* first five requests are admitted and the sixth is rejected with limitType
\* burst and retryAfter = ceil((burstResetTime - now) / 1000).
C9_BurstLimit ==
  (limitCall.clientId # "" /\ CallBurstWindow.fresh)
  => /\ CallBurstWindow.seen <= burstCapacity => limitCall.res.status = 200
     /\ CallBurstWindow.seen = burstCapacity + 1 =>
          /\ limitCall.res.status = 429
          /\ limitCall.res.limitType = "burst"
          /\ limitCall.res.retryAfter * 1000 >= limitCall.rolled.burstResetTime - limitCall.t
          /\ (limitCall.res.retryAfter - 1) * 1000 < limitCall.rolled.burstResetTime - limitCall.t

\* the sixth request of such a window, sent 9001 ms after the first
C9_Witness ==
  /\ limitCall.clientId # ""
  /\ CallBurstWindow.fresh
  /\ CallBurstWindow.seen = burstCapacity + 1
  /\ CallBurstWindow.admits = burstCapacity
  /\ limitCall.res.limitType = "burst"
  /\ limitCall.rolled.burstResetTime - limitCall.t = 999
  /\ limitCall.res.retryAfter = 1

\* the client's latest minute window has all its admits and is over
MinuteConsumed(clientId, t) ==
  \E w \in limitWindows :
    /\ w.clientId = clientId
    /\ w.kind = "minute"
    /\ \A v \in limitWindows : v.clientId = clientId /\ v.kind = "minute" => v.reset <= w.reset
    /\ w.admits = maxRequestsPerMinute
    /\ t >= w.reset

\* the client's burst window is still open and full
BurstBlocked(clientId, t) ==
  /\ clientId \in DOMAIN rateLimiter.store
  /\ t < rateLimiter.store[clientId].burstResetTime
  /\ rateLimiter.store[clientId].burstRequests >= burstCapacity

\* the step is a request to the middleware
LimitStep == limitCall' # limitCall

\* C10 as claimed: window rollover.  A request of a client whose minute
\* window has all ten admits, at or after that window's reset time, is
\* admitted and reports 9 remaining.
C10_Rollover ==
  [][(LimitStep /\ MinuteConsumed(limitCall'.clientId, now))
     => /\ limitCall'.res.status = 200
        /\ limitCall'.res.remaining = maxRequestsPerMinute - 1]_vars

\* C10 as amended: such a request is rejected with limitType burst if the
\* client's burst window is still open and full, and otherwise admitted
\* with 9 remaining.
C10_RolloverUnlessBurst ==
  [][(LimitStep /\ MinuteConsumed(limitCall'.clientId, now))
     => IF BurstBlocked(limitCall'.clientId, now)
        THEN limitCall'.res.status = 429 /\ limitCall'.res.limitType = "burst"
        ELSE /\ limitCall'.res.status = 200
             /\ limitCall'.res.remaining = maxRequestsPerMinute - 1]_vars

\* a request admitted with 9 remaining, 60001 ms after it opened a minute
\* window that it found with all ten admits
C10_Witness ==
  /\ limitCall.res.status = 200
  /\ limitCall.res.remaining = maxRequestsPerMinute - 1
  /\ limitCall.prior.requests = maxRequestsPerMinute
  /\ limitCall.t = limitCall.prior.resetTime + 1

\* C23 as the specification states it: a window that rolls over at a request
\* made at now >= its reset time gets the reset time old reset + W, with W
\* 60000 for the minute window and 10000 for the burst window
C23_FixedWindows ==
  [][LimitStep
     => LET prior == RateLimiter_getStatus(rateLimiter, limitCall'.clientId)
            after == rateLimiter'.store[limitCall'.clientId]
        IN prior # NoInfo
             => /\ now >= prior.resetTime
                     => after.resetTime = prior.resetTime + MinuteWindow
                /\ now >= prior.burstResetTime
                     => after.burstResetTime = prior.burstResetTime + burstWindow]_vars

\* C23: a window that rolls over at a request made at now >= its reset time
\* gets the reset time now + W, with W 60000 for the minute window and 10000
\* for the burst window; a window whose reset time is after now keeps it
C23_WindowsFromArrival ==
  [][LimitStep
     => LET prior == RateLimiter_getStatus(rateLimiter, limitCall'.clientId)
            after == rateLimiter'.store[limitCall'.clientId]
        IN prior # NoInfo
             => /\ now >= prior.resetTime => after.resetTime = now + MinuteWindow
                /\ now < prior.resetTime => after.resetTime = prior.resetTime
                /\ now >= prior.burstResetTime
                     => after.burstResetTime = now + burstWindow
                /\ now < prior.burstResetTime
                     => after.burstResetTime = prior.burstResetTime]_vars

\* a request made after the end of the minute window has rolled it over, and
\* the new reset time is not the old one plus 60000
C23_Witness ==
  /\ limitCall.prior # NoInfo
  /\ limitCall.t > limitCall.prior.resetTime
  /\ limitCall.clientId \in DOMAIN rateLimiter.store
  /\ rateLimiter.store[limitCall.clientId].resetTime = limitCall.t + MinuteWindow
  /\ rateLimiter.store[limitCall.clientId].resetTime
       # limitCall.prior.resetTime + MinuteWindow

\* a step of the limiter's sweep (the model leaves out sweeps that remove nothing)
LimitCleanupStep == rateLimiter' # rateLimiter /\ limitCall' = limitCall

\* C26: a sweep leaves the entries it keeps as they were, and the next
\* request of any client, at the time of the sweep or later, gets the same
\* response (status, limitType, retryAfter and the header values) and leaves
\* the same entry for the client whether the sweep has run or not; so the
\* responses of all later requests are the same as well
C26_SweepTransparent ==
  [][LimitCleanupStep
     => /\ \A c \in DOMAIN rateLimiter'.store :
             c \in DOMAIN rateLimiter.store
             /\ rateLimiter'.store[c] = rateLimiter.store[c]
        /\ \A peer \in Peers, t \in LimitTimes :
             t >= now
               => LET c == getClientId(peer.ip, peer.remoteAddress)
                      swept == RateLimiter_middleware(rateLimiter', c, t)
                      kept == RateLimiter_middleware(rateLimiter, c, t)
                  IN /\ swept.res = kept.res
                     /\ swept.rl.store[c] = kept.rl.store[c]]_vars

\* a request has been admitted that found no entry, the sweep having removed
\* the entry whose windows had ended
C26_Witness ==
  /\ limitCall.clientId # ""
  /\ limitCall.prior = NoInfo
  /\ limitCall.res.status = 200
  /\ \E w \in limitWindows :
       /\ w.clientId = limitCall.clientId
       /\ w.kind = "minute"
       /\ w.reset <= limitCall.t

\* the time of the last request of the client: the last request is in
\* limitCall, and a client that did not make it made its own at instant 0,
\* the peer without an address sending at 0 only
LastRequestAt(clientId) == IF limitCall.clientId = clientId THEN limitCall.t ELSE 0

\* the clients whose entries the step has removed
Swept == (DOMAIN rateLimiter.store) \ (DOMAIN rateLimiter'.store)

\* C31 as the specification states it: the sweep removes the entry of a
\* client only when the client's last request, admitted or rejected, was at
\* least 60000 ms before the sweep
C31_SweepOnlyIdle ==
  [][LimitCleanupStep
     => \A c \in Swept : now - LastRequestAt(c) >= MinuteWindow]_vars

\* C31: the sweep removes the entry of a client only when both reset times
\* of the entry are at or before the time of the sweep, so at least 60000 ms
\* after the minute window of the entry was opened and 10000 ms after its
\* burst window was; it keeps every entry with a reset time still to come
C31_SweepOnlyEnded ==
  [][LimitCleanupStep
     => /\ \A c \in Swept :
             /\ now >= rateLimiter.store[c].resetTime
             /\ now >= rateLimiter.store[c].burstResetTime
        /\ \A c \in DOMAIN rateLimiter.store :
             (now < rateLimiter.store[c].resetTime
              \/ now < rateLimiter.store[c].burstResetTime)
               => c \in DOMAIN rateLimiter'.store]_vars

\* the entry of a client is gone less than 60000 ms after the client's last
\* request
C31_Witness ==
  /\ limitCall.clientId # ""
  /\ limitCall.clientId \notin DOMAIN rateLimiter.store
  /\ limitCall.t > 0
  /\ now - limitCall.t < MinuteWindow

\* C37: the retryAfter r of a rejection at now by a tier is at least 1 and at
\* most the length of the tier's window in seconds, and the client's next
\* request, made at now + 1000 * r, is not rejected by that tier
C37_HonestRetryAfter ==
  [][(LimitStep /\ limitCall'.res.status = 429)
     => LET r == limitCall'.res.retryAfter
            tier == limitCall'.res.limitType
            again == RateLimiter_middleware(rateLimiter', limitCall'.clientId,
                                            now + 1000 * r)
        IN /\ r >= 1
           /\ r * 1000 <= WindowLength(tier)
           /\ again.res.limitType # tier]_vars

\* a rejection 999 ms before the end of the burst window, with retryAfter 1
C37_Witness ==
  /\ limitCall.res.status = 429
  /\ limitCall.res.limitType = "burst"
  /\ limitCall.rolled.burstResetTime - limitCall.t = 999
  /\ limitCall.res.retryAfter = 1

\* C38: a request that is rejected leaves both counters of its client at
\* what the rollover of that call made them, and a request that is admitted
\* adds exactly one to each; the reset times are those of the rollover
C38_RejectionCostsNothing ==
  [][LimitStep
     => LET rolled == RolledOver(rateLimiter, limitCall'.clientId, now)
            after == rateLimiter'.store[limitCall'.clientId]
        IN /\ limitCall'.res.status \in {200, 429}
           /\ limitCall'.res.status = 429 => after = rolled
           /\ limitCall'.res.status = 200
                => after = [rolled EXCEPT !.requests = @ + 1,
                                          !.burstRequests = @ + 1]]_vars

\* a rejection by the burst tier has left five burst requests and five
\* minute requests counted
C38_Witness ==
  /\ limitCall.res.status = 429
  /\ limitCall.clientId \in DOMAIN rateLimiter.store
  /\ rateLimiter.store[limitCall.clientId].burstRequests = burstCapacity
  /\ rateLimiter.store[limitCall.clientId].requests = burstCapacity
  /\ limitCall.rolled = rateLimiter.store[limitCall.clientId]

\* C39: a request of one client leaves the entry of every other client as it
\* was, and the response that any other client would get to a request at
\* this or a later instant is the same after the request as before it
C39_ClientIsolation ==
  [][LimitStep
     => \A peer \in Peers :
          LET other == getClientId(peer.ip, peer.remoteAddress)
          IN other # limitCall'.clientId
               => /\ RateLimiter_getStatus(rateLimiter', other)
                       = RateLimiter_getStatus(rateLimiter, other)
                  /\ \A t \in LimitTimes :
                       t >= now
                         => RateLimiter_middleware(rateLimiter', other, t).res
                              = RateLimiter_middleware(rateLimiter, other, t).res]_vars

\* the client without an address is admitted with all of its quota at an
\* instant at which the other client has used its burst capacity up
C39_Witness ==
  /\ limitCall.clientId = "unknown"
  /\ limitCall.res.status = 200
  /\ limitCall.res.burstRemaining = burstCapacity - 1
  /\ "10.0.0.1" \in DOMAIN rateLimiter.store
  /\ rateLimiter.store["10.0.0.1"].burstRequests = burstCapacity

\* ---------------------------------------------------------------- claims: service
\* the step is the arrival of a GET /users/:id request
SvcGetStep == Len(handlers') = Len(handlers) + 1

\* the handlers for userId that have answered with a record
Answered(hs, userId) ==
  {i \in DOMAIN hs : hs[i].userId = userId /\ hs[i].res.status = 200}

\* C11: warm read.  A request for a user that an earlier request has
\* answered with a record, made while the cache holds an entry for the user
\* whose age is at most its ttl, is answered with that same record from the
\* cache, and leaves the processor, its promises and its groups as they were.
C11_WarmRead ==
  [][SvcGetStep =>
       LET h == handlers'[Len(handlers')]
           key == cacheKey(h.userId)
       IN (/\ h.res.status # 400
           /\ Answered(handlers, h.userId) # {}
           /\ key \in DOMAIN lru.cache
           /\ now - lru.cache[key].timestamp <= lru.cache[key].ttl)
          => /\ h.hit
             /\ h.res.status = 200
             /\ \A i \in Answered(handlers, h.userId) : h.res.data = handlers[i].res.data
             /\ asyncProcessor' = asyncProcessor
             /\ promises' = promises
             /\ groupLog' = groupLog]_vars

\* a request answered from the cache, 60000 ms after the answer to an
\* earlier request for the same user stored the entry
C11_Witness ==
  /\ svcCall.op = "get"
  /\ svcCall.hit
  /\ Len(handlers) > 1
  /\ LET h == handlers[Len(handlers)]
     IN /\ h.hit
        /\ \E i \in Answered(handlers, h.userId) :
             i < Len(handlers) /\ handlers[i].w > 0 /\ handlers[i].res.data = h.res.data
        /\ now - lru.cache[cacheKey(h.userId)].timestamp = DefaultTtl

\* the handlers that await, or have awaited, a promise of the pending group gid
HandlersOf(gid) ==
  {i \in DOMAIN handlers : handlers[i].w > 0 /\ promises[handlers[i].w].gid = gid}

\* the handlers that are waiting for their promise
Awaiting == {i \in DOMAIN handlers : handlers[i].w > 0 /\ handlers[i].res = NoReply}

\* the number of times key is in accessOrder
Occurrences(order, key) == Cardinality({i \in DOMAIN order : order[i] = key})

FetchAhead(ap, userId) ==
  \/ \E i \in DOMAIN ap.running : ap.running[i].userId = userId
  \/ \E i \in DOMAIN ap.processingQueue : ap.processingQueue[i] = userId

\* C13: negative results are not cached.  The cache holds entries of stored
\* users only; the delivery of a fetch that found no user answers every
\* request of the group with 404 and leaves no entry for the user; and every
\* request for a user that is not stored joins a pending group whose fetch
\* is still to look the user up.
C13_NegativeNotCached ==
  /\ [](\A key \in DOMAIN lru.cache :
          \E id \in DOMAIN asyncProcessor.mockUsers : key = cacheKey(id))
  /\ []((svcCall.op = "deliver" /\ svcCall.res.status # 200)
        => /\ svcCall.res = Reply(404, NoUser, Rejected(svcCall.userId).message)
           /\ \A i \in HandlersOf(svcCall.gid) : handlers[i].res = svcCall.res
           /\ cacheKey(svcCall.userId) \notin DOMAIN lru.cache)
  /\ [][SvcGetStep =>
          LET h == handlers'[Len(handlers')]
          IN (h.res.status # 400 /\ h.userId \notin DOMAIN asyncProcessor.mockUsers)
             => /\ h.res = NoReply
                /\ h.w > 0
                /\ h.userId \in DOMAIN asyncProcessor'.pendingRequests
                /\ groupLog'[promises'[h.w].gid].closedBy = "open"
                /\ FetchAhead(asyncProcessor', h.userId)]_vars

\* two requests for user 4, which is not stored, answered with 404 by the
\* fetches of two pending groups
C13_Witness ==
  \E i, j \in DOMAIN handlers :
    /\ i < j
    /\ handlers[i].userId = 4
    /\ handlers[j].userId = 4
    /\ handlers[i].res.status = 404
    /\ handlers[j].res.status = 404
    /\ promises[handlers[i].w].gid # promises[handlers[j].w].gid
    /\ groupLog[promises[handlers[i].w].gid].fetches = 1
    /\ groupLog[promises[handlers[j].w].gid].fetches = 1
    /\ cacheKey(4) \notin DOMAIN lru.cache

\* C17: create then read.  A request for the user that POST /users has just
\* answered with, made at the same instant and before any other request, is
\* answered with that record from the cache, and leaves the processor, its
\* promises and its groups as they were.
C17_CreateThenRead ==
  [][(/\ SvcGetStep
      /\ svcCall.op = "post"
      /\ svcCall.res.status = 201
      /\ handlers'[Len(handlers')].res.status # 400
      /\ handlers'[Len(handlers')].userId = svcCall.res.data.id)
     => /\ handlers'[Len(handlers')].hit
        /\ handlers'[Len(handlers')].res = Reply(200, svcCall.res.data, <<>>)
        /\ asyncProcessor' = asyncProcessor
        /\ promises' = promises
        /\ groupLog' = groupLog]_vars

\* the first request the router handles after it created user 4, at the
\* instant of the creation: a hit that returns the new user
C17_Witness ==
  /\ svcCall.op = "get"
  /\ svcCall.hit
  /\ svcCall.userId = 4
  /\ handlers = <<[userId |-> 4, w |-> 0, hit |-> TRUE,
                   res |-> Reply(200, [id |-> 4, name |-> "Test User",
                                       email |-> "test@example.com"], <<>>),
                   closed |-> FALSE]>>
  /\ promises = <<>>
  /\ lru.cache[cacheKey(4)].timestamp = now

\* the step is a POST /users that has added a user
SvcCreateStep == asyncProcessor'.mockUsers # asyncProcessor.mockUsers

\* C18: id assignment.  POST /users answers with a user whose id is one more
\* than the largest id stored (and so the id of no stored user), stores the
\* user under that id and keeps every stored user as it was, whatever
\* fetches are running; and every user is stored under its own id.
C18_IdAssignment ==
  /\ [][SvcCreateStep =>
          LET stored == asyncProcessor.mockUsers
              user == svcCall'.res.data
          IN /\ svcCall'.op = "post"
             /\ svcCall'.res.status = 201
             /\ \A id \in DOMAIN stored : id < user.id
             /\ user.id - 1 \in (DOMAIN stored) \cup {0}
             /\ DOMAIN asyncProcessor'.mockUsers = (DOMAIN stored) \cup {user.id}
             /\ asyncProcessor'.mockUsers[user.id] = user
             /\ \A id \in DOMAIN stored : asyncProcessor'.mockUsers[id] = stored[id]]_vars
  /\ [](\A id \in DOMAIN asyncProcessor.mockUsers : asyncProcessor.mockUsers[id].id = id)

\* the second user created, with id 5, while a fetch was running
C18_Witness ==
  /\ svcCall.op = "post"
  /\ svcCall.res.status = 201
  /\ svcCall.res.data.id = 5
  /\ DOMAIN asyncProcessor.mockUsers = 1..5
  /\ asyncProcessor.mockUsers[4].id = 4
  /\ Len(asyncProcessor.running) > 0

\* C19: cache statistics reflect get_user traffic.  The hits and misses that
\* GET /cache/status reports are the numbers of GET /users/:id requests whose
\* probe of the cache found an entry, and found none.
C19_StatusCountsProbes ==
  svcCall.op = "status"
  => /\ svcCall.res.data.hits = Cardinality({i \in DOMAIN handlers : handlers[i].hit})
     /\ svcCall.res.data.misses = Cardinality({i \in DOMAIN handlers : handlers[i].w > 0})

\* C20: clear.  Right after clear() the cache and the access order are empty
\* and the statistics show hits = 0, misses = 0 and size = 0.
C20_ClearResets ==
  cacheCall.op = "clear"
  => /\ DOMAIN lru.cache = {}
     /\ lru.accessOrder = <<>>
     /\ LRUCache_getStats(lru) = [hits |-> 0, misses |-> 0, size |-> 0]
\* C30: when the periodic cache sweep has run, the cache that GET /users/:id
\* probes and fills holds no expired entry
C30_SweepRemovesExpired ==
  svcCall.op = "sweep"
  => \A key \in DOMAIN lru.cache : ~Expired(lru.cache[key], now)

\* the step is a DELETE /cache request
CacheClearStep == svcCall'.op = "clear" /\ svcCall' # svcCall

\* C34: DELETE /cache acts on the cache that GET /users/:id uses.  It reports
\* as previousSize the number of entries that GET /users/:id and POST /users
\* have put in that cache and leaves it empty, and a GET /users/:id that
\* follows it, for whatever user, is not answered from the cache.
C34_ClearActsOnUsersCache ==
  /\ [][CacheClearStep
         => /\ svcCall'.res.data.previousSize = CacheSize(lru)
            /\ CacheSize(lru') = 0]_vars
  /\ [][(SvcGetStep /\ svcCall.op = "clear") => ~handlers'[Len(handlers')].hit]_vars

\* C35: cache coherence with the store.  Every entry of the cache that
\* GET /users/:id uses is stored under the key of a user of the store and
\* holds exactly the store's record of that user.
C35_CacheCoherent ==
  \A key \in DOMAIN lru.cache :
    \E id \in DOMAIN asyncProcessor.mockUsers :
      /\ key = cacheKey(id)
      /\ lru.cache[key].data = asyncProcessor.mockUsers[id]

\* the cache holds a record that a fetch has brought and one that
\* POST /users has created, after DELETE /cache and a cleanup were served
C35_Witness ==
  /\ cacheKey(2) \in DOMAIN lru.cache
  /\ cacheKey(4) \in DOMAIN lru.cache
  /\ lru.cache[cacheKey(4)].data.id = 4
  /\ svcCall.op \in {"clear", "cleanup", "sweep"}

\* ---------------------------------------------------------------- claims: pipeline
\* C24: a GET /users/:id whose id is not a positive integer is answered with
\* status 400 at once, without a promise of the processor; no pending group
\* is ever opened for such an id, and the cache counts one probe (hit or
\* miss) for each request with a positive id and none for the others
C24_IdValidation ==
  /\ \A i \in DOMAIN handlers :
       handlers[i].userId < 1
         => /\ handlers[i].res.status = 400
            /\ handlers[i].w = 0
            /\ ~handlers[i].hit
  /\ \A g \in DOMAIN groupLog : groupLog[g].key >= 1
  /\ LRUCache_getStats(lru).hits + LRUCache_getStats(lru).misses
       = Cardinality({i \in DOMAIN handlers : handlers[i].userId >= 1})

\* the step is a request that came to the application
PipeStep == now' = now /\ (pipeCall' # pipeCall \/ limitCall' # limitCall)

\* the limiter would reject a request that finds these counters
Rejects(info) ==
  info.burstRequests >= burstCapacity \/ info.requests >= maxRequestsPerMinute

\* C28 as the specification states it: a request whose id is not a number is
\* answered with status 400 also when the limiter would reject it, and it
\* leaves the limiter's counters for its client as they were
C28_ValidationFirst ==
  [][(PipeStep /\ parseInt(pipeCall'.param).isNaN)
     => LET before == RolledOver(rateLimiter, pipeCall'.clientId, now)
            after == RolledOver(rateLimiter', pipeCall'.clientId, now)
        IN /\ pipeCall'.res.status = 400
           /\ after.requests = before.requests
           /\ after.burstRequests = before.burstRequests]_vars

\* C28: the limiter's admission comes before the validation of the id.  A
\* request that the limiter rejects is answered with status 429 whatever its
\* id, adds nothing to the counters and does not reach the users router; a
\* request that the limiter admits adds one to both counters of its client,
\* and if its id is not a number it is answered with status 400 and touches
\* neither the cache nor the processor
C28_LimiterFirst ==
  [][PipeStep
     => LET before == RolledOver(rateLimiter, pipeCall'.clientId, now)
            after == RolledOver(rateLimiter', pipeCall'.clientId, now)
        IN /\ Rejects(before)
                => /\ pipeCall'.res.status = 429
                   /\ after.requests = before.requests
                   /\ after.burstRequests = before.burstRequests
                   /\ handlers' = handlers
                   /\ lru' = lru
                   /\ asyncProcessor' = asyncProcessor
           /\ ~Rejects(before)
                => /\ pipeCall'.res.status # 429
                   /\ after.requests = before.requests + 1
                   /\ after.burstRequests = before.burstRequests + 1
                   /\ Len(handlers') = Len(handlers) + 1
           /\ (~Rejects(before) /\ parseInt(pipeCall'.param).isNaN)
                => /\ pipeCall'.res.status = 400
                   /\ lru' = lru
                   /\ asyncProcessor' = asyncProcessor]_vars

\* a request whose id is not a number has been rejected by the limiter, after
\* one like it was admitted, counted and answered with status 400
C28_Witness ==
  /\ parseInt(pipeCall.param).isNaN
  /\ pipeCall.res.status = 429
  /\ pipeCall.limit.limitType = "burst"
  /\ \E i \in DOMAIN handlers : handlers[i].res.status = 400
  /\ rateLimiter.store[pipeCall.clientId].burstRequests = burstCapacity

\* the step is a request to the cache router that came to the application
CacheRouteStep ==
  /\ now' = now
  /\ pipeCall'.param = <<>>
  /\ pipeCall'.clientId # ""
  /\ (pipeCall' # pipeCall \/ limitCall' # limitCall)

\* C32: the cache routes have no error outcome.  A request to
\* GET /cache/status, DELETE /cache or POST /cache/cleanup is answered with
\* status 200 whatever the limiter holds for its client, and leaves the
\* limiter's counters as they were.
C32_CacheRoutesUnlimited ==
  [][CacheRouteStep
     => LET before == RolledOver(rateLimiter, pipeCall'.clientId, now)
            after == RolledOver(rateLimiter', pipeCall'.clientId, now)
        IN /\ pipeCall'.res.status = 200
           /\ after.requests = before.requests
           /\ after.burstRequests = before.burstRequests]_vars

\* ---------------------------------------------------------------- claims: router and sweep
\* the step is the end of a fetch: the timer has fired and processUser has run
SweepDeliverStep ==
  /\ now' = now
  /\ svcCall'.op = "deliver"
  /\ asyncProcessor'.running # asyncProcessor.running
  /\ Len(handlers') = Len(handlers)

====
